---- MODULE Spec2Model ----
(***************************************************************************)
(* AstroShield: the Defense Mode controller (static/js/DefenseMode.js),    *)
(* the trajectory scene renderer (OrbitalViz) and the deflection estimator *)
(* (estimateDeflectionOutcome), each under its own specification.          *)
(*                                                                         *)
(* Spec: one DefenseMode instance, the two DOM targets it writes (countdown text *)
(* and message block), the GSAP tweens it creates, and the input lock that *)
(* its onLockInputs / onUnlockInputs callbacks drive.  Every public method *)
(* and the tween's frame callback is one action; the methods themselves    *)
(* are operators from a world record to a world record, so that a method   *)
(* calling another method is an operator applied inside another.           *)
(*                                                                         *)
(* SpecCamera, SpecScene: the orbit camera and the scene of OrbitalViz.    *)
(* SpecEst, SpecEstAny: the estimator on well-formed templates and on any  *)
(* template a caller can pass.  SpecMission: the orchestration of main.js. *)
(* SpecHeap, SpecCycle: objects as cells of a heap, to follow which object *)
(* the estimator and a simulation cycle allocate, share and write.         *)
(* SpecFair: Spec with the animation frames scheduled fairly.  SpecPage:   *)
(* the debounce timer and the requests of main.js.  SpecFallback: the      *)
(* failure fallback run after run on its own previous estimate.            *)
(***************************************************************************)
EXTENDS Integers, Sequences, FiniteSets, TLC

(* ---------- bounds ---------- *)

\* number of sessions (countdown tweens) one behaviour may arm
MaxSessions == 3

\* crater diameters range over 0..MaxCrater
MaxCrater == 2

\* delta-v values range over -1..MaxDeltaV
MaxDeltaV == 1

\* sessions one behaviour may arm under the fair timer
MaxFairSessions == 1

Craters == 0 .. MaxCrater

DeltaVs == (0 - 1) .. MaxDeltaV

(* ---------- program constants ---------- *)

\* JS null in a numeric field (baselineCraterKm, countdownTween)
Null == 0 - 1

\* return values are records named by their JS type, so that values of
\* different types are different values: the value of a call that returns
\* nothing, and a returned boolean
Undefined == [undefined |-> TRUE]

Bool(b) == [boolean |-> b]

\* duration and start value of the countdown tween
COUNTDOWN_DURATION == 10

\* this.explicitScenario; the coordinates are kept in hundredths of a degree
explicitScenario ==
    [diameter_m |-> 460, velocity_kms |-> 28, impact_lat |-> 3405, impact_lon |-> 0 - 11825]

(* ---------- state ---------- *)

VARIABLES
    active,             \* this.active
    countdownTween,     \* this.countdownTween: Null or the handle of a tween
    baselineCraterKm,   \* this.baselineCraterKm: Null or a crater diameter
    countdownText,      \* countdownEl.textContent
    msgClasses,         \* messageEl.classList
    msgText,            \* messageEl.textContent
    tweens,             \* GSAP timeline: counter.time of each live tween, by handle
    locked,             \* the caller's input lock (main.js toggleControls)
    calls,              \* callbacks invoked by the last operation, in order
    ret,                \* value returned by the last operation
    session,            \* number of the session armed last (0: none yet)
    resolutions,        \* _resolve calls since the last arming start()
    ended,              \* per session: how it left the armed state
    fired,              \* the sessions whose countdown onComplete has run
    lastOp,             \* the last operation and its arguments
    pre,                \* the program state before the last operation
    viz,                \* the OrbitalViz instance (scene renderer)
    est,                \* the deflection estimator's inputs and result
    mc,                 \* mission control (main.js): sliders, timer, requests
    hp,                 \* the object heap around one estimator call
    sim,                \* main.js: the object heap, lastSimulationData, renders
    pg                  \* main.js: the debounce timers and the requests in flight

dmVars == <<active, countdownTween, baselineCraterKm, countdownText, msgClasses, msgText,
            tweens, locked, calls, ret, session, resolutions, ended, fired, lastOp, pre>>

vars == <<active, countdownTween, baselineCraterKm, countdownText, msgClasses, msgText,
          tweens, locked, calls, ret, session, resolutions, ended, fired, lastOp, pre,
          viz, est, mc, hp, sim, pg>>

\* the value of a component that a specification does not construct
Unused == "unused"

\* the whole state as one record, handed through the methods
World ==
    [active |-> active, countdownTween |-> countdownTween,
     baselineCraterKm |-> baselineCraterKm, countdownText |-> countdownText,
     msgClasses |-> msgClasses, msgText |-> msgText, tweens |-> tweens,
     locked |-> locked, calls |-> calls, ret |-> ret, session |-> session,
     resolutions |-> resolutions, ended |-> ended, fired |-> fired]

\* the program's part of a world: fields, DOM targets, tweens, lock
Prog(w) ==
    [active |-> w.active, countdownTween |-> w.countdownTween,
     baselineCraterKm |-> w.baselineCraterKm, countdownText |-> w.countdownText,
     msgClasses |-> w.msgClasses, msgText |-> w.msgText, tweens |-> w.tweens,
     locked |-> w.locked]

(* ---------- callbacks supplied by the caller ---------- *)

onLockInputs(w) ==
    [w EXCEPT !.locked = TRUE, !.calls = Append(@, "onLockInputs")]

onUnlockInputs(w) ==
    [w EXCEPT !.locked = FALSE, !.calls = Append(@, "onUnlockInputs")]

onExpire(w) ==
    [w EXCEPT !.calls = Append(@, "onExpire")]

(* ---------- GSAP ---------- *)

\* the timeline without the tween of handle h
Without(tw, h) == [k \in DOMAIN tw \ {h} |-> tw[k]]

\* gsap.to(counter, {time: 0, duration: 10, ...}): a new tween of handle h
\* joins the timeline, counter.time being 10
gsapTo(tw, h) ==
    (h :> COUNTDOWN_DURATION) @@ tw

\* tween.kill(): the tween leaves the timeline, its callbacks never run again
kill(tw, h) ==
    Without(tw, h)

(* ---------- DefenseMode ---------- *)

isActive(w) == w.active

hasBaseline(w) == w.baselineCraterKm # Null

_resetMessage(w) ==
    [w EXCEPT !.msgClasses = @ \ {"visible", "defense-success", "defense-failure"},
              !.msgText = ""]

\* the session number doubles as the handle of the session's tween
_beginCountdown(w) ==
    LET h == w.session + 1
    IN  [w EXCEPT !.countdownText = "Time to impact: 10s",
                  !.tweens = gsapTo(@, h),
                  !.countdownTween = h,
                  !.session = h,
                  !.resolutions = 0,
                  !.ended = Append(@, "open")]

_stopCountdownNoKill(w) ==
    [w EXCEPT !.countdownText = "", !.countdownTween = Null]

_stopCountdown(w) ==
    LET w1 == [w EXCEPT !.countdownText = ""]
    IN  IF w1.countdownTween # Null
        THEN [w1 EXCEPT !.tweens = kill(@, w1.countdownTween),
                        !.countdownTween = Null]
        ELSE w1

\* the session armed last leaves the armed state for the given cause
EndSession(w, cause) ==
    IF w.session \in DOMAIN w.ended /\ w.ended[w.session] = "open"
    THEN [w EXCEPT !.ended[w.session] = cause]
    ELSE w

_resolveKeepCountdown(w, success, fromTimeout) ==
    LET cause == IF fromTimeout THEN "timeout" ELSE IF success THEN "success" ELSE "failure"
        w1 == EndSession([w EXCEPT !.active = FALSE, !.resolutions = @ + 1], cause)
        w3 == onUnlockInputs(w1)
        w4 == [w3 EXCEPT !.msgClasses = @ \cup {"visible"}]
    IN  IF success
        THEN [w4 EXCEPT !.msgClasses = @ \cup {"defense-success"},
                        !.msgText = "Defense successful! Earth is safe."]
        ELSE [w4 EXCEPT !.msgClasses = @ \cup {"defense-failure"},
                        !.msgText = IF fromTimeout
                                    THEN "Defense failed: countdown reached zero."
                                    ELSE "Defense failed: insufficient mitigation."]

_resolveKeepLock(w, success, fromTimeout) ==
    LET cause == IF fromTimeout THEN "timeout" ELSE IF success THEN "success" ELSE "failure"
        w1 == EndSession([w EXCEPT !.active = FALSE, !.resolutions = @ + 1], cause)
        w2 == _stopCountdown(w1)
        w4 == [w2 EXCEPT !.msgClasses = @ \cup {"visible"}]
    IN  IF success
        THEN [w4 EXCEPT !.msgClasses = @ \cup {"defense-success"},
                        !.msgText = "Defense successful! Earth is safe."]
        ELSE [w4 EXCEPT !.msgClasses = @ \cup {"defense-failure"},
                        !.msgText = IF fromTimeout
                                    THEN "Defense failed: countdown reached zero."
                                    ELSE "Defense failed: insufficient mitigation."]

_resolve(w, success, fromTimeout) ==
    LET cause == IF fromTimeout THEN "timeout" ELSE IF success THEN "success" ELSE "failure"
        w1 == EndSession([w EXCEPT !.active = FALSE, !.resolutions = @ + 1], cause)
        w2 == _stopCountdown(w1)
        w3 == onUnlockInputs(w2)
        w4 == [w3 EXCEPT !.msgClasses = @ \cup {"visible"}]
    IN  IF success
        THEN [w4 EXCEPT !.msgClasses = @ \cup {"defense-success"},
                        !.msgText = "Defense successful! Earth is safe."]
        ELSE [w4 EXCEPT !.msgClasses = @ \cup {"defense-failure"},
                        !.msgText = IF fromTimeout
                                    THEN "Defense failed: countdown reached zero."
                                    ELSE "Defense failed: insufficient mitigation."]

startKeepMessage(w) ==
    IF w.active
    THEN [w EXCEPT !.ret = explicitScenario]
    ELSE LET w1 == [w EXCEPT !.active = TRUE, !.baselineCraterKm = Null]
             w3 == onLockInputs(w1)
             w4 == _beginCountdown(w3)
         IN  [w4 EXCEPT !.ret = explicitScenario]

startUnguarded(w) ==
    LET w1 == [w EXCEPT !.active = TRUE, !.baselineCraterKm = Null]
        w2 == _resetMessage(w1)
        w3 == onLockInputs(w2)
        w4 == _beginCountdown(w3)
    IN  [w4 EXCEPT !.ret = explicitScenario]

start(w) ==
    IF w.active
    THEN [w EXCEPT !.ret = explicitScenario]
    ELSE LET w1 == [w EXCEPT !.active = TRUE, !.baselineCraterKm = Null]
             w2 == _resetMessage(w1)
             w3 == onLockInputs(w2)
             w4 == _beginCountdown(w3)
         IN  [w4 EXCEPT !.ret = explicitScenario]

cancelKeepCountdown(w) ==
    LET w1 == EndSession([w EXCEPT !.active = FALSE, !.baselineCraterKm = Null], "cancel")
        w3 == _resetMessage(w1)
    IN  onUnlockInputs(w3)

cancel(w) ==
    LET w1 == EndSession([w EXCEPT !.active = FALSE, !.baselineCraterKm = Null], "cancel")
        w2 == _stopCountdown(w1)
        w3 == _resetMessage(w2)
    IN  onUnlockInputs(w3)

recordBaseline(w, craterKm) ==
    [w EXCEPT !.baselineCraterKm = craterKm]

\* `1 - craterKm / baseline >= threshold` with threshold 1/2, in IEEE doubles
\* over integer operands: a null baseline converts to 0; x/0 is +Infinity,
\* NaN or -Infinity by the sign of x, and only 1 - (-Infinity) passes; for a
\* non-zero baseline the quotient of two small integers is within one
\* rounding of the exact one and 1/2 is exact, so the test is the exact
\* comparison 1 - c/b >= 1/2, i.e. c/b <= 1/2.
ReductionAboveHalf(craterKm, baseline) ==
    LET b == IF baseline = Null THEN 0 ELSE baseline
    IN  IF b = 0 THEN craterKm < 0
        ELSE IF b > 0 THEN 2 * craterKm < b
        ELSE 2 * craterKm > b

ReductionAtLeastHalf(craterKm, baseline) ==
    LET b == IF baseline = Null THEN 0 ELSE baseline
    IN  IF b = 0 THEN craterKm < 0
        ELSE IF b > 0 THEN 2 * craterKm <= b
        ELSE 2 * craterKm >= b

evaluateAttemptNoBaselineGuard(w, craterKm, deltaV) ==
    IF ~w.active THEN [w EXCEPT !.ret = Bool(FALSE)]
    ELSE IF deltaV <= 0 THEN [w EXCEPT !.ret = Bool(FALSE)]
    ELSE LET success == ReductionAtLeastHalf(craterKm, w.baselineCraterKm)
         IN  [_resolve(w, success, FALSE) EXCEPT !.ret = Bool(success)]

evaluateAttemptZeroDeltaV(w, craterKm, deltaV) ==
    IF ~w.active \/ w.baselineCraterKm = Null THEN [w EXCEPT !.ret = Bool(FALSE)]
    ELSE IF deltaV < 0 THEN [w EXCEPT !.ret = Bool(FALSE)]
    ELSE LET success == ReductionAtLeastHalf(craterKm, w.baselineCraterKm)
         IN  [_resolve(w, success, FALSE) EXCEPT !.ret = Bool(success)]

evaluateAttempt(w, craterKm, deltaV) ==
    IF ~w.active \/ w.baselineCraterKm = Null THEN [w EXCEPT !.ret = Bool(FALSE)]
    ELSE IF deltaV <= 0 THEN [w EXCEPT !.ret = Bool(FALSE)]
    ELSE LET success == ReductionAtLeastHalf(craterKm, w.baselineCraterKm)
         IN  [_resolve(w, success, FALSE) EXCEPT !.ret = Bool(success)]

handleTimeoutUnguarded(w) ==
    _resolve(w, FALSE, TRUE)

handleTimeoutWrongReason(w) ==
    IF ~w.active THEN w ELSE _resolve(w, FALSE, FALSE)

handleTimeout(w) ==
    IF ~w.active THEN w ELSE _resolve(w, FALSE, TRUE)

\* the tween's onUpdate callback, h being the tween's handle
onUpdate(w, h) ==
    [w EXCEPT !.countdownText = "Time to impact: " \o ToString(w.tweens[h]) \o "s"]

onCompleteNoTimeout(w, h) ==
    onExpire([w EXCEPT !.countdownText = "Impact!", !.fired = @ \cup {h}])

\* the tween's onComplete callback
onComplete(w, h) ==
    LET w1 == [w EXCEPT !.countdownText = "Impact!", !.fired = @ \cup {h}]
        w2 == handleTimeout(w1)
    IN  onExpire(w2)

\* one frame of a running tween: counter.time moves one unit towards 0,
\* onUpdate runs, and on reaching 0 the tween completes and onComplete runs
tweenFrame(w, h) ==
    LET t  == w.tweens[h] - 1
        w1 == [w EXCEPT !.tweens[h] = t]
        w2 == onUpdate(w1, h)
    IN  IF t > 0 THEN w2
        ELSE onComplete([w2 EXCEPT !.tweens = Without(@, h)], h)

(* ---------- the state machine ---------- *)

\* the controller right after `new DefenseMode(...)`
DmInit ==
    /\ active = FALSE
    /\ countdownTween = Null
    /\ baselineCraterKm = Null
    /\ countdownText = ""
    /\ msgClasses = {}
    /\ msgText = ""
    /\ tweens = <<>>
    /\ locked = FALSE
    /\ calls = <<>>
    /\ ret = Undefined
    /\ session = 0
    /\ resolutions = 0
    /\ ended = <<>>
    /\ fired = {}
    /\ lastOp = [name |-> "new", craterKm |-> 0, deltaV |-> 0, tween |-> 0]
    /\ pre = Prog([active |-> FALSE, countdownTween |-> Null, baselineCraterKm |-> Null,
                   countdownText |-> "", msgClasses |-> {}, msgText |-> "",
                   tweens |-> <<>>, locked |-> FALSE])

Init ==
    /\ DmInit
    /\ viz = Unused
    /\ est = Unused
    /\ mc = Unused
    /\ hp = Unused
    /\ pg = Unused
    /\ sim = Unused

\* the world an operation starts from: nothing called or returned yet
Entry == [World EXCEPT !.calls = <<>>, !.ret = Undefined]

\* the controller's variables after an operation that ends in world w
CommitWorld(w) ==
    /\ active' = w.active
    /\ countdownTween' = w.countdownTween
    /\ baselineCraterKm' = w.baselineCraterKm
    /\ countdownText' = w.countdownText
    /\ msgClasses' = w.msgClasses
    /\ msgText' = w.msgText
    /\ tweens' = w.tweens
    /\ locked' = w.locked
    /\ calls' = w.calls
    /\ ret' = w.ret
    /\ session' = w.session
    /\ resolutions' = w.resolutions
    /\ ended' = w.ended
    /\ fired' = w.fired

Commit(w, op) ==
    /\ lastOp' = op
    /\ pre' = Prog(World)
    /\ CommitWorld(w)
    /\ UNCHANGED <<viz, est, mc, hp, sim, pg>>

Op(name) == [name |-> name, craterKm |-> 0, deltaV |-> 0, tween |-> 0]

Start ==
    /\ active \/ session < MaxSessions
    /\ Commit(start(Entry), Op("start"))

Cancel ==
    Commit(cancel(Entry), Op("cancel"))

RecordBaseline ==
    \E c \in Craters :
        Commit(recordBaseline(Entry, c), [Op("recordBaseline") EXCEPT !.craterKm = c])

EvaluateAttempt ==
    \E c \in Craters, dv \in DeltaVs :
        Commit(evaluateAttempt(Entry, c, dv),
               [Op("evaluateAttempt") EXCEPT !.craterKm = c, !.deltaV = dv])

HandleTimeout ==
    Commit(handleTimeout(Entry), Op("handleTimeout"))

TweenFrame ==
    \E h \in DOMAIN tweens :
        Commit(tweenFrame(Entry, h), [Op("tweenFrame") EXCEPT !.tween = h])

Next ==
    \/ Start
    \/ Cancel
    \/ RecordBaseline
    \/ EvaluateAttempt
    \/ HandleTimeout
    \/ TweenFrame

Spec == Init /\ [][Next]_vars

\* the operations on the first MaxFairSessions sessions, with crater
\* diameters 0..2 and delta-v 0..1 (a countdown frame is never excluded)
FairStep ==
    /\ session' <= MaxFairSessions
    /\ lastOp'.craterKm \in 0 .. 2
    /\ lastOp'.deltaV \in 0 .. 1

FairNext ==
    \/ Start /\ FairStep
    \/ Cancel /\ FairStep
    \/ RecordBaseline /\ FairStep
    \/ EvaluateAttempt /\ FairStep
    \/ HandleTimeout /\ FairStep
    \/ TweenFrame

\* GSAP's ticker runs every live tween on each animation frame: a tween that
\* is not killed keeps getting frames until it completes (every frame
\* changes the timeline)
SpecFair == Init /\ [][FairNext]_vars /\ WF_tweens(TweenFrame)

TypeOK ==
    /\ active \in BOOLEAN
    /\ countdownTween \in {Null} \cup DOMAIN tweens
    /\ baselineCraterKm \in {Null} \cup Craters
    /\ msgClasses \subseteq {"visible", "defense-success", "defense-failure"}
    /\ \A h \in DOMAIN tweens : tweens[h] \in 1 .. COUNTDOWN_DURATION
    /\ locked \in BOOLEAN

(* ---------- properties of the controller ---------- *)

\* the last operation was evaluateAttempt on an armed session with a baseline
AttemptWithBaseline ==
    /\ lastOp.name = "evaluateAttempt"
    /\ pre.active
    /\ pre.baselineCraterKm # Null

\* the last operation was the frame on which the tween of handle lastOp.tween
\* reached 0 and ran onComplete
CountdownCompleted ==
    /\ lastOp.name = "tweenFrame"
    /\ pre.tweens[lastOp.tween] = 1

\* C1: whatever the interleaving of start, recordBaseline, evaluateAttempt,
\* handleTimeout, countdown frames and cancel, _resolve runs at most once
\* between an arming start() and the next one.
C1_AtMostOneResolution ==
    resolutions <= 1

\* C1 witness: a resolved session on which a further attempt or timeout was
\* tried, still with its single resolution
C1_Witness ==
    /\ resolutions = 1
    /\ ~pre.active
    /\ lastOp.name \in {"handleTimeout", "evaluateAttempt"}

\* C2: the frame that completes the 10-unit countdown resolves the session
\* once, as a Failure with the timeout text, and calls onExpire once; until a
\* new start() no evaluateAttempt returns true or shows the success class.
C2_TimeoutIsTheOnlyResolution ==
    /\ CountdownCompleted =>
          /\ ~active
          /\ resolutions = 1
          /\ ended[session] = "timeout"
          /\ msgClasses = {"visible", "defense-failure"}
          /\ msgText = "Defense failed: countdown reached zero."
          /\ Cardinality({i \in DOMAIN calls : calls[i] = "onExpire"}) = 1
    /\ (session > 0 /\ ended[session] = "timeout") =>
          /\ "defense-success" \notin msgClasses
          /\ lastOp.name = "evaluateAttempt" => ret = Bool(FALSE)

\* C2 witness: after a timeout, an attempt that would have met the threshold
\* against the baseline the session still holds
C2_Witness ==
    /\ session > 0
    /\ ended[session] = "timeout"
    /\ lastOp.name = "evaluateAttempt"
    /\ lastOp.deltaV > 0
    /\ baselineCraterKm # Null
    /\ ReductionAtLeastHalf(lastOp.craterKm, baselineCraterKm)

\* C3: the completion handler of a session that was cancelled or resolved by
\* an attempt never runs, and a completion only ever belongs to the session
\* that is armed when it runs.
C3_NoLateCompletion ==
    /\ \A h \in fired : ended[h] = "timeout"
    /\ CountdownCompleted => pre.active /\ pre.countdownTween = lastOp.tween

\* C3 witness: a session ended by cancel or by an attempt, a later session
\* ran its whole countdown, and the earlier one never fired
C3_Witness ==
    /\ session > 1
    /\ ended[session] = "timeout"
    /\ \E h \in 1 .. (session - 1) : ended[h] \in {"cancel", "success", "failure"}
    /\ CountdownCompleted

\* C4: start() on an armed session returns the fixed scenario and changes
\* nothing: fields, countdown, baseline, message block, lock; no callback.
C4_StartWhileArmedIsNoOp ==
    (lastOp.name = "start" /\ pre.active) =>
        /\ ret = explicitScenario
        /\ Prog(World) = pre
        /\ calls = <<>>

\* C4 witness: start() on an armed session that has a baseline and whose
\* countdown has already advanced
C4_Witness ==
    /\ lastOp.name = "start"
    /\ pre.active
    /\ baselineCraterKm # Null
    /\ countdownTween # Null
    /\ tweens[countdownTween] < COUNTDOWN_DURATION

\* C5: after cancel(), from any state, the controller is Idle: not active, no
\* baseline, no countdown, message block cleared, onUnlockInputs invoked.
C5_CancelReturnsToIdle ==
    lastOp.name = "cancel" =>
        /\ ~active
        /\ baselineCraterKm = Null
        /\ countdownTween = Null
        /\ DOMAIN tweens = {}
        /\ countdownText = ""
        /\ msgClasses = {}
        /\ msgText = ""
        /\ calls = <<"onUnlockInputs">>
        /\ ~locked

\* C5 witness: cancel() on an armed session with a baseline
C5_Witness ==
    /\ lastOp.name = "cancel"
    /\ pre.active
    /\ pre.baselineCraterKm # Null
    /\ pre.countdownTween # Null

\* C6: evaluateAttempt() on a session that is not armed, or armed without a
\* baseline, returns false, changes nothing and invokes no callback.
C6_AttemptWithoutSessionIsNoOp ==
    (lastOp.name = "evaluateAttempt" /\ (~pre.active \/ pre.baselineCraterKm = Null)) =>
        /\ ret = Bool(FALSE)
        /\ Prog(World) = pre
        /\ calls = <<>>

\* C6 witness: an attempt with positive delta-v on an armed session that has
\* no baseline yet
C6_Witness ==
    /\ lastOp.name = "evaluateAttempt"
    /\ pre.active
    /\ pre.baselineCraterKm = Null
    /\ lastOp.deltaV > 0

\* C7: evaluateAttempt() with deltaV <= 0 on an armed session with a baseline
\* leaves the session armed, the countdown running, the baseline unchanged,
\* and does not invoke onUnlockInputs.
C7_NonPositiveDeltaVDoesNotResolve ==
    (AttemptWithBaseline /\ lastOp.deltaV <= 0) =>
        /\ active
        /\ resolutions = 0
        /\ countdownTween = pre.countdownTween
        /\ tweens = pre.tweens
        /\ baselineCraterKm = pre.baselineCraterKm
        /\ calls = <<>>
        /\ locked

\* C7 witness: an attempt with delta-v 0 on an armed session with a baseline
C7_Witness ==
    /\ AttemptWithBaseline
    /\ lastOp.deltaV = 0

\* C8: evaluateAttempt() with deltaV > 0 on an armed session with baseline b
\* resolves Success exactly when 1 - craterKm/b >= 1/2 (for b = 0 the
\* quotient is not finite and the test fails), Failure otherwise, and returns
\* that outcome.
C8_ThresholdDecidesOutcome ==
    (AttemptWithBaseline /\ lastOp.deltaV > 0) =>
        LET b == pre.baselineCraterKm
            c == lastOp.craterKm
            meets == b > 0 /\ 2 * (b - c) >= b
        IN  /\ ~active
            /\ resolutions = 1
            /\ ret = Bool(meets)
            /\ meets => /\ msgClasses = {"visible", "defense-success"}
                        /\ msgText = "Defense successful! Earth is safe."
                        /\ ended[session] = "success"
            /\ ~meets => /\ msgClasses = {"visible", "defense-failure"}
                         /\ msgText = "Defense failed: insufficient mitigation."
                         /\ ended[session] = "failure"

\* C8 witness: the boundary case, a crater of exactly half the baseline
C8_Witness ==
    /\ AttemptWithBaseline
    /\ lastOp.deltaV > 0
    /\ pre.baselineCraterKm > 0
    /\ 2 * lastOp.craterKm = pre.baselineCraterKm
    /\ ret = Bool(TRUE)

\* C9: evaluateAttempt() with deltaV <= 0 on an armed session with a baseline
\* signals a hint: something observable (message block, countdown text, lock
\* or a callback) changes, unlike the not-armed / no-baseline no-op.
C9_HintIsSignalled ==
    (AttemptWithBaseline /\ lastOp.deltaV <= 0) =>
        \/ Prog(World) # pre
        \/ calls # <<>>

\* C10: within an armed session the baseline is captured once: recordBaseline
\* on a session that already has a baseline keeps the recorded one, and a
\* start() that arms a session leaves it without a baseline.
C10_BaselineCapturedOnce ==
    /\ (lastOp.name = "recordBaseline" /\ pre.active /\ pre.baselineCraterKm # Null) =>
          baselineCraterKm = pre.baselineCraterKm
    /\ (lastOp.name = "start" /\ ~pre.active) =>
          baselineCraterKm = Null

\* C12: the session is destroyed on cancel and on every resolution: whenever
\* the controller is not armed it holds no baseline and no countdown.
C12_IdleHoldsNoSession ==
    ~active =>
        /\ ~hasBaseline(World)
        /\ countdownTween = Null
        /\ DOMAIN tweens = {}

\* C32: between operations a countdown exists exactly when the session is
\* armed: countdownTween is non-null iff active, the timeline holds the
\* tween of countdownTween and no other while armed, and no tween at all
\* while idle; so at most one countdown is live at any time.
C32_CountdownExactlyWhenArmed ==
    /\ countdownTween # Null <=> active
    /\ DOMAIN tweens = (IF active THEN {countdownTween} ELSE {})
    /\ Cardinality(DOMAIN tweens) <= 1

\* C32 witness: a later session is armed after earlier ones were resolved
\* and cancelled, its countdown halfway down
C32_Witness ==
    /\ active
    /\ session = 3
    /\ ended[1] \in {"success", "failure", "timeout"}
    /\ ended[2] = "cancel"
    /\ tweens[countdownTween] < COUNTDOWN_DURATION

\* C33: the caller's inputs are locked exactly when the session is armed:
\* the callback invoked last is onLockInputs iff active.
C33_LockedExactlyWhenArmed ==
    locked <=> active

\* C33 witness: a resolution has just unlocked the inputs that the second
\* arming start() had locked
C33_Witness ==
    /\ session = 2
    /\ ~active /\ ~locked
    /\ pre.locked
    /\ calls = <<"onUnlockInputs">>
    /\ lastOp.name = "evaluateAttempt"

\* the outcome classes of the message block
OutcomeClasses == msgClasses \cap {"defense-success", "defense-failure"}

\* C34: the message block never carries both outcome classes; it is visible
\* only when idle after a resolution of the session armed last, and then
\* with exactly one outcome class; an arming start() and every cancel()
\* leave it without classes and without text.
C34_MessageShowsOneOutcome ==
    /\ Cardinality(OutcomeClasses) <= 1
    /\ "visible" \in msgClasses =>
          /\ Cardinality(OutcomeClasses) = 1
          /\ ~active
          /\ session > 0
          /\ ended[session] \in {"success", "failure", "timeout"}
    /\ ((lastOp.name = "start" /\ ~pre.active) \/ lastOp.name = "cancel") =>
          /\ msgClasses = {}
          /\ msgText = ""

\* C34 witness: a failure is shown after an earlier session showed a success
C34_Witness ==
    /\ session = 2
    /\ ended[1] = "success"
    /\ msgClasses = {"visible", "defense-failure"}

\* C35: with a fair countdown timer every armed session eventually returns
\* to idle with the inputs unlocked, even if no attempt is ever evaluated
\* and cancel() is never called.
C35_ArmedEventuallyIdle ==
    active ~> (~active /\ ~locked)

\* C35 witness: a session that got no baseline, hence no attempt, was ended
\* by its countdown
C35_Witness ==
    /\ lastOp.name = "tweenFrame"
    /\ pre.active /\ pre.baselineCraterKm = Null
    /\ ~active /\ ~locked
    /\ ended[session] = "timeout"

(***************************************************************************)
(* OrbitalViz: the camera rig and its gestures.                            *)
(*                                                                         *)
(* Angles are counted in 1/10000 rad, radii in 1/1000 scene units, and     *)
(* the zoom factor in 1/10000, each product rounded down once, where the   *)
(* code rounds each double operation once.                                 *)
(***************************************************************************)

(* ---------- bounds ---------- *)

\* pointer-move and wheel events one behaviour may deliver
MaxGestures == 3

\* pointer positions, in pixels
PixelsX == {0, 150}

PixelsY == {0, 300}

\* wheel notches the user has already turned when a behaviour begins:
\* negative towards the target, positive away from it
WheelStarts == {0 - 60, 0, 42}

\* container boxes <<clientWidth, clientHeight>> seen by a resize
Boxes == {<<0, 0>>, <<800, 600>>}

(* ---------- program constants ---------- *)

\* Math.PI
PI == 31416

MIN_POLAR_ANGLE == 1500

MAX_POLAR_ANGLE == PI - 1500

MIN_RADIUS == 3000

MAX_RADIUS == 28000

\* radians per pixel
DRAG_SENSITIVITY == 65

\* Math.exp(ZOOM_SENSITIVITY * 0.12) = e^0.0216
ZOOM_IN_FACTOR == 10218

\* Math.exp(-ZOOM_SENSITIVITY * 0.12) = e^-0.0216
ZOOM_OUT_FACTOR == 9786

\* new THREE.Spherical(11, Math.PI / 2.35, Math.PI / 8)
InitialSpherical == [radius |-> 11000, phi |-> 13368, theta |-> 3927]

\* THREE.MathUtils.clamp
clamp(x, lo, hi) == IF x < lo THEN lo ELSE IF x > hi THEN hi ELSE x

\* the camera position is a function of the spherical it was set from, so
\* the position is kept as that spherical
setFromSpherical(sph) == sph

_updateCameraNoPhiClamp(v) ==
    LET sph == [v.spherical EXCEPT !.radius = clamp(@, MIN_RADIUS, MAX_RADIUS)]
    IN  [v EXCEPT !.spherical = sph, !.cameraPosition = setFromSpherical(sph)]

_updateCameraFromSpherical(v) ==
    LET sph == [v.spherical EXCEPT !.phi = clamp(@, MIN_POLAR_ANGLE, MAX_POLAR_ANGLE),
                                   !.radius = clamp(@, MIN_RADIUS, MAX_RADIUS)]
    IN  [v EXCEPT !.spherical = sph, !.cameraPosition = setFromSpherical(sph)]

\* event.button = 0 is the primary button
_handlePointerDown(v, button, clientX, clientY) ==
    IF button # 0 THEN v
    ELSE [v EXCEPT !.isDragging = TRUE, !.pointerLast = [x |-> clientX, y |-> clientY]]

_handlePointerMoveNotDirty(v, clientX, clientY) ==
    IF ~v.isDragging THEN v
    ELSE LET deltaX == clientX - v.pointerLast.x
             deltaY == clientY - v.pointerLast.y
         IN  [v EXCEPT !.pointerLast = [x |-> clientX, y |-> clientY],
                       !.spherical.theta = @ - deltaX * DRAG_SENSITIVITY,
                       !.spherical.phi = @ - deltaY * DRAG_SENSITIVITY]

_handlePointerMoveUnarmed(v, clientX, clientY) ==
    LET deltaX == clientX - v.pointerLast.x
        deltaY == clientY - v.pointerLast.y
    IN  [v EXCEPT !.pointerLast = [x |-> clientX, y |-> clientY],
                  !.spherical.theta = @ - deltaX * DRAG_SENSITIVITY,
                  !.spherical.phi = @ - deltaY * DRAG_SENSITIVITY,
                  !.needsCameraUpdate = TRUE]

_handlePointerMove(v, clientX, clientY) ==
    IF ~v.isDragging THEN v
    ELSE LET deltaX == clientX - v.pointerLast.x
             deltaY == clientY - v.pointerLast.y
         IN  [v EXCEPT !.pointerLast = [x |-> clientX, y |-> clientY],
                       !.spherical.theta = @ - deltaX * DRAG_SENSITIVITY,
                       !.spherical.phi = @ - deltaY * DRAG_SENSITIVITY,
                       !.needsCameraUpdate = TRUE]

_handlePointerUp(v) ==
    IF ~v.isDragging THEN v ELSE [v EXCEPT !.isDragging = FALSE]

\* spherical.radius *= factor
zoomedRadius(radius, deltaY) ==
    LET factor == IF deltaY > 0 THEN ZOOM_IN_FACTOR ELSE ZOOM_OUT_FACTOR
    IN  (radius * factor) \div 10000

_handleWheel(v, deltaY) ==
    [v EXCEPT !.spherical.radius = zoomedRadius(@, deltaY),
              !.needsCameraUpdate = TRUE]

\* width = clientWidth || parent's clientWidth || 640 (the parent is taken to
\* have no width either), height = clientHeight || 420
_onResize(v, box) ==
    [v EXCEPT !.size = [width  |-> IF box[1] # 0 THEN box[1] ELSE 640,
                        height |-> IF box[2] # 0 THEN box[2] ELSE 420],
              !.needsCameraUpdate = TRUE]

(***************************************************************************)
(* OrbitalViz: orbit lines, marker and the frame loop.                     *)
(*                                                                         *)
(* Path coordinates are counted in units of 100 000 km, scene coordinates  *)
(* in 1/1000 AU, marker progress and speed in 1/100000 of a lap.  The      *)
(* self-rotation angles of the Earth, the clouds and the marker grow       *)
(* without bound and feed nothing else; they are left out.                 *)
(***************************************************************************)

(* ---------- bounds ---------- *)

\* renderPaths calls one behaviour may make
MaxRenders == 2

\* points in a path handed to renderPaths
MaxPathLen == 2

\* the points paths are made of
PathPoints == { [x |-> 1496, y |-> 0, z |-> 0], [x |-> 0, y |-> 1525, z |-> 450] }

PathsUpTo(n) == UNION { [1 .. k -> PathPoints] : k \in 0 .. n }

\* a path argument: absent (undefined / null) or an array of points
AbsentPath == [present |-> FALSE, points |-> <<>>]

\* what a coordinate field holds when it holds no number: nothing
\* (undefined), null, or a value Number() turns into NaN; all three lie
\* outside the range of coordinates
NoCoordinate == 0 - 1000001

NullCoordinate == 0 - 1000002

NonNumeric == 0 - 1000003

\* NaN as a coordinate of the scene
NaN == 0 - 1000000

\* a point with one malformed coordinate of each kind
MalformedPoint == [x |-> NonNumeric, y |-> NoCoordinate, z |-> NullCoordinate]

MalformedPath == [present |-> TRUE, points |-> <<MalformedPoint>>]

PathArgs ==
    {AbsentPath, MalformedPath} \cup
    { [present |-> TRUE, points |-> q] : q \in PathsUpTo(MaxPathLen) }

\* the baseline paths tried: absent, malformed, empty, or a single point
BaselineArgs ==
    {AbsentPath, MalformedPath} \cup
    { [present |-> TRUE, points |-> q] : q \in { <<>>, << [x |-> 1496, y |-> 0, z |-> 0] >> } }

(* ---------- program constants ---------- *)

\* one astronomical unit, 149 597 870.7 km
AU_IN_KM == 1496

\* a whole lap of the marker, the modulus of `% 1`
ONE_LAP == 100000

\* this._asteroidSpeed = 0.0024
INITIAL_SPEED == 240

\* Math.min(0.01, ...)
MAX_SPEED == 1000

\* Math.max(0.00045, ...)
MIN_SPEED == 45

\* multiplyScalar(SCALE_FACTOR): kilometres to astronomical units
ToScene(c) == (c * 1000) \div AU_IN_KM

\* Number(c) || 0
NumberOrZero(c) == IF c \in {NoCoordinate, NullCoordinate, NonNumeric} THEN 0 ELSE c

\* (Number(point?.x) || 0) * SCALE_FACTOR, and so for y and z
ScaleVector(p) ==
    [x |-> ToScene(NumberOrZero(p.x)), y |-> ToScene(NumberOrZero(p.y)),
     z |-> ToScene(NumberOrZero(p.z))]

MapVectors(points) == [i \in DOMAIN points |-> ScaleVector(points[i])]

\* one coordinate of new THREE.Vector3(p.x, p.y, p.z).multiplyScalar(SCALE_FACTOR):
\* an undefined argument takes the constructor's default 0, null * s is 0,
\* and a value that is no number times s is NaN
Vector3Scaled(c) ==
    IF c = NoCoordinate \/ c = NullCoordinate THEN 0
    ELSE IF c = NonNumeric THEN NaN
    ELSE ToScene(c)

LineVectors(points) ==
    [i \in DOMAIN points |-> [x |-> Vector3Scaled(points[i].x),
                              y |-> Vector3Scaled(points[i].y),
                              z |-> Vector3Scaled(points[i].z)]]

\* new OrbitalViz(containerId), the container having no box yet
NewViz ==
    [spherical |-> InitialSpherical,
     cameraPosition |-> setFromSpherical(InitialSpherical),
     needsCameraUpdate |-> TRUE,
     isDragging |-> FALSE,
     pointerLast |-> [x |-> 0, y |-> 0],
     size |-> [width |-> 640, height |-> 420],
     scene |-> {},
     objects |-> <<>>,
     baselineOrbit |-> Null,
     deflectedOrbit |-> Null,
     asteroidMarker |-> Null,
     asteroidPathVectors |-> <<>>,
     asteroidProgress |-> 0,
     asteroidSpeed |-> INITIAL_SPEED,
     markerReads |-> <<>>,
     gestures |-> 0,
     renders |-> 0,
     drawn |-> FALSE]

\* a new line or mesh; its handle is its index in v.objects
NewObject(v, kind, vectors, position) ==
    [v EXCEPT !.objects = Append(@, [kind |-> kind, vectors |-> vectors,
                                     position |-> position, disposed |-> FALSE])]

Origin == [x |-> 0, y |-> 0, z |-> 0]

_createOrbitLine(v, kind, points) ==
    NewObject(v, kind, LineVectors(points), Origin)

\* what is left of a line or mesh once its resources are released
Released(kind) ==
    [kind |-> kind, vectors |-> <<>>, position |-> Origin, disposed |-> TRUE]

\* geometry.dispose(), material.dispose(), scene.remove(object3d)
_disposeObject(v, h) ==
    IF h = Null THEN v
    ELSE [v EXCEPT !.objects[h] = Released(@.kind),
                   !.scene = @ \ {h}]

dynamicSpeed(n) ==
    LET ratio == 80000 \div n
        lower == IF ratio > MIN_SPEED THEN ratio ELSE MIN_SPEED
    IN  IF lower < MAX_SPEED THEN lower ELSE MAX_SPEED

renderPathsLeakMarker(v, baseline_path, deflected_path) ==
    IF ~baseline_path.present \/ ~deflected_path.present THEN v
    ELSE
      LET v1 == _disposeObject(_disposeObject(v, v.baselineOrbit), v.deflectedOrbit)
          v2 == [v1 EXCEPT !.baselineOrbit = Null, !.deflectedOrbit = Null,
                           !.asteroidMarker = Null, !.asteroidPathVectors = <<>>,
                           !.asteroidProgress = 0, !.markerReads = <<>>,
                           !.renders = @ + 1]
          v3 == _createOrbitLine(v2, "baseline", baseline_path.points)
          b  == Len(v3.objects)
          v4 == _createOrbitLine(v3, "deflected", deflected_path.points)
          d  == Len(v4.objects)
          v5 == [v4 EXCEPT !.baselineOrbit = b, !.deflectedOrbit = d,
                           !.scene = @ \cup {b, d}]
          deflectedVectors == MapVectors(deflected_path.points)
      IN  IF Len(deflectedVectors) = 0 THEN v5
          ELSE LET v6 == NewObject(v5, "marker", <<>>, deflectedVectors[1])
                   m  == Len(v6.objects)
               IN  [v6 EXCEPT !.asteroidPathVectors = deflectedVectors,
                              !.asteroidSpeed = dynamicSpeed(Len(deflectedVectors)),
                              !.asteroidMarker = m,
                              !.scene = @ \cup {m}]

renderPaths(v, baseline_path, deflected_path) ==
    IF ~baseline_path.present \/ ~deflected_path.present THEN v
    ELSE
      LET v1 == _disposeObject(_disposeObject(_disposeObject(v, v.baselineOrbit),
                                              v.deflectedOrbit), v.asteroidMarker)
          v2 == [v1 EXCEPT !.baselineOrbit = Null, !.deflectedOrbit = Null,
                           !.asteroidMarker = Null, !.asteroidPathVectors = <<>>,
                           !.asteroidProgress = 0, !.markerReads = <<>>,
                           !.renders = @ + 1]
          v3 == _createOrbitLine(v2, "baseline", baseline_path.points)
          b  == Len(v3.objects)
          v4 == _createOrbitLine(v3, "deflected", deflected_path.points)
          d  == Len(v4.objects)
          v5 == [v4 EXCEPT !.baselineOrbit = b, !.deflectedOrbit = d,
                           !.scene = @ \cup {b, d}]
          deflectedVectors == MapVectors(deflected_path.points)
      IN  IF Len(deflectedVectors) = 0 THEN v5
          ELSE LET v6 == NewObject(v5, "marker", <<>>, deflectedVectors[1])
                   m  == Len(v6.objects)
               IN  [v6 EXCEPT !.asteroidPathVectors = deflectedVectors,
                              !.asteroidSpeed = dynamicSpeed(Len(deflectedVectors)),
                              !.asteroidMarker = m,
                              !.scene = @ \cup {m}]

\* Vector3.lerpVectors(a, b, blend), blend in 1/100000
lerpVectors(a, b, blend) ==
    [x |-> a.x + ((b.x - a.x) * blend) \div ONE_LAP,
     y |-> a.y + ((b.y - a.y) * blend) \div ONE_LAP,
     z |-> a.z + ((b.z - a.z) * blend) \div ONE_LAP]

_advanceMarkerNoWrap(v) ==
    LET n == Len(v.asteroidPathVectors)
    IN  IF v.asteroidMarker = Null \/ n = 0 THEN v
        ELSE IF n = 1
        THEN [v EXCEPT !.objects[v.asteroidMarker].position = v.asteroidPathVectors[1],
                       !.markerReads = <<0>>]
        ELSE LET progress == (v.asteroidProgress + v.asteroidSpeed) % ONE_LAP
                 segmentPosition == progress * n
                 currentIndex == segmentPosition \div ONE_LAP
                 nextIndex == currentIndex + 1
                 blend == segmentPosition - currentIndex * ONE_LAP
             IN  [v EXCEPT !.asteroidProgress = progress,
                           !.markerReads = <<currentIndex, nextIndex>>,
                           !.objects[v.asteroidMarker].position =
                               IF currentIndex < n /\ nextIndex < n
                               THEN lerpVectors(v.asteroidPathVectors[currentIndex + 1],
                                                v.asteroidPathVectors[nextIndex + 1], blend)
                               ELSE @]

\* array indices are 0-based in the code and 1-based here; v.markerReads
\* keeps the indices of asteroidPathVectors the last call read since the
\* last renderPaths.  An index outside the array reads undefined, on which
\* lerpVectors throws: the position is then left as it was.
_advanceAsteroidMarker(v) ==
    LET n == Len(v.asteroidPathVectors)
    IN  IF v.asteroidMarker = Null \/ n = 0 THEN v
        ELSE IF n = 1
        THEN [v EXCEPT !.objects[v.asteroidMarker].position = v.asteroidPathVectors[1],
                       !.markerReads = <<0>>]
        ELSE LET progress == (v.asteroidProgress + v.asteroidSpeed) % ONE_LAP
                 segmentPosition == progress * n
                 currentIndex == segmentPosition \div ONE_LAP
                 nextIndex == (currentIndex + 1) % n
                 blend == segmentPosition - currentIndex * ONE_LAP
             IN  [v EXCEPT !.asteroidProgress = progress,
                           !.markerReads = <<currentIndex, nextIndex>>,
                           !.objects[v.asteroidMarker].position =
                               IF currentIndex < n /\ nextIndex < n
                               THEN lerpVectors(v.asteroidPathVectors[currentIndex + 1],
                                                v.asteroidPathVectors[nextIndex + 1], blend)
                               ELSE @]

\* one frame; renderer.render draws the scene from v.cameraPosition
_animate(v) ==
    LET v1 == IF v.needsCameraUpdate
              THEN [_updateCameraFromSpherical(v) EXCEPT !.needsCameraUpdate = FALSE]
              ELSE v
    IN  IF v1.asteroidMarker # Null THEN _advanceAsteroidMarker(v1) ELSE v1

(* ---------- the renderer's state machines ---------- *)

\* the radius after six wheel events in one direction; the conjunction
\* makes the steps be computed one after the other
zoomedSix(radius, deltaY) ==
    LET r1 == zoomedRadius(radius, deltaY)
        r2 == zoomedRadius(r1, deltaY)
        r3 == zoomedRadius(r2, deltaY)
        r4 == zoomedRadius(r3, deltaY)
        r5 == zoomedRadius(r4, deltaY)
    IN  IF r1 >= 0 /\ r2 >= 0 /\ r3 >= 0 /\ r4 >= 0 /\ r5 >= 0
        THEN zoomedRadius(r5, deltaY) ELSE 0

\* the radius after thirty wheel events in one direction
zoomedThirty(radius, deltaY) ==
    LET r1 == zoomedSix(radius, deltaY)
        r2 == zoomedSix(r1, deltaY)
        r3 == zoomedSix(r2, deltaY)
        r4 == zoomedSix(r3, deltaY)
    IN  IF r1 >= 0 /\ r2 >= 0 /\ r3 >= 0 /\ r4 >= 0
        THEN zoomedSix(r4, deltaY) ELSE 0

RECURSIVE RadiusAfter(_, _)
\* the radius after |n| wheel events in one direction
RadiusAfter(radius, n) ==
    IF n = 0 \/ radius = 0 THEN radius
    ELSE IF n >= 30 THEN RadiusAfter(zoomedThirty(radius, 100), n - 30)
    ELSE IF n <= 0 - 30 THEN RadiusAfter(zoomedThirty(radius, 0 - 100), n + 30)
    ELSE IF n >= 6 THEN RadiusAfter(zoomedSix(radius, 100), n - 6)
    ELSE IF n <= 0 - 6 THEN RadiusAfter(zoomedSix(radius, 0 - 100), n + 6)
    ELSE IF n > 0 THEN RadiusAfter(zoomedRadius(radius, 100), n - 1)
    ELSE RadiusAfter(zoomedRadius(radius, 0 - 100), n + 1)

\* the renderer after |n| wheel events in one direction
AfterWheels(v, n) ==
    IF n = 0 THEN v
    ELSE [v EXCEPT !.spherical.radius = RadiusAfter(@, n),
                   !.needsCameraUpdate = TRUE]

\* the renderer as constructed, or as constructed and zoomed
VizInit ==
    /\ DmInit
    /\ viz \in { AfterWheels(NewViz, n) : n \in WheelStarts }
    /\ est = Unused
    /\ mc = Unused
    /\ hp = Unused
    /\ pg = Unused
    /\ sim = Unused

\* v.drawn: the operation ended with renderer.render
VizCommit(v, drew) ==
    /\ viz' = [v EXCEPT !.drawn = drew]
    /\ UNCHANGED <<dmVars, est, mc, hp, sim, pg>>

PointerDown ==
    \E button \in {0, 2}, cx \in PixelsX, cy \in PixelsY :
        VizCommit(_handlePointerDown(viz, button, cx, cy), FALSE)

PointerMove ==
    \E cx \in PixelsX, cy \in PixelsY :
        /\ viz.gestures < MaxGestures
        /\ VizCommit([_handlePointerMove(viz, cx, cy) EXCEPT !.gestures = @ + 1], FALSE)

PointerUp ==
    VizCommit(_handlePointerUp(viz), FALSE)

Wheel ==
    \E deltaY \in {0 - 100, 100} :
        /\ viz.gestures < MaxGestures
        /\ VizCommit([_handleWheel(viz, deltaY) EXCEPT !.gestures = @ + 1], FALSE)

Resize ==
    \E box \in Boxes :
        VizCommit(_onResize(viz, box), FALSE)

Animate ==
    VizCommit(_animate(viz), TRUE)

RenderPaths ==
    \E bp \in BaselineArgs, dp \in PathArgs :
        /\ viz.renders < MaxRenders
        /\ VizCommit(renderPaths(viz, bp, dp), FALSE)

CameraNext ==
    \/ PointerDown
    \/ PointerMove
    \/ PointerUp
    \/ Wheel
    \/ Resize
    \/ Animate

SpecCamera == VizInit /\ [][CameraNext]_vars

SceneNext ==
    \/ RenderPaths
    \/ Animate

\* the renderer as constructed
SceneInit ==
    /\ DmInit
    /\ viz = NewViz
    /\ est = Unused
    /\ mc = Unused
    /\ hp = Unused
    /\ pg = Unused
    /\ sim = Unused

SpecScene == SceneInit /\ [][SceneNext]_vars

(* ---------- properties of the renderer ---------- *)

\* the handles of the objects of one kind that satisfy a test
Disposed(kind) ==
    { h \in DOMAIN viz.objects : viz.objects[h].kind = kind /\ viz.objects[h].disposed }

InScene(kind) ==
    { h \in viz.scene : viz.objects[h].kind = kind }

\* C13: after n >= 1 renderPaths calls with both paths present the scene
\* holds exactly the current baseline line, the current deflected line and,
\* exactly when the deflected path is non-empty, the current marker; every
\* earlier line and marker is disposed and out of the scene, so n - 1
\* baseline lines and n - 1 deflected lines have been disposed.
C13_OneRenderSetInScene ==
    viz.renders >= 1 =>
        /\ InScene("baseline") = {viz.baselineOrbit}
        /\ InScene("deflected") = {viz.deflectedOrbit}
        /\ InScene("marker") = {viz.asteroidMarker} \ {Null}
        /\ viz.asteroidMarker # Null <=> Len(viz.objects[viz.deflectedOrbit].vectors) > 0
        /\ \A h \in DOMAIN viz.objects :
              IF h \in {viz.baselineOrbit, viz.deflectedOrbit, viz.asteroidMarker}
              THEN ~viz.objects[h].disposed /\ h \in viz.scene
              ELSE viz.objects[h].disposed /\ h \notin viz.scene
        /\ Cardinality(Disposed("baseline")) = viz.renders - 1
        /\ Cardinality(Disposed("deflected")) = viz.renders - 1

\* C13 witness: a second render, both renders with a marker
C13_Witness ==
    /\ viz.renders = 2
    /\ viz.asteroidMarker # Null
    /\ Disposed("marker") # {}

\* C31: a pointer-move changes the rig only while a drag is armed: a
\* pointer-move while no drag is armed, and a pointer-down with a button
\* other than the primary one, leave the rig and the dirty flag as they
\* were; and a pointer-move or wheel event that changes the rig leaves the
\* camera marked dirty.
C31_RigMovesOnlyWhileArmed ==
    [][ /\ (PointerMove /\ ~viz.isDragging) =>
              /\ viz'.spherical = viz.spherical
              /\ viz'.needsCameraUpdate = viz.needsCameraUpdate
        /\ (\E cx \in PixelsX, cy \in PixelsY :
               VizCommit(_handlePointerDown(viz, 2, cx, cy), FALSE)) =>
              /\ viz'.spherical = viz.spherical
              /\ viz'.needsCameraUpdate = viz.needsCameraUpdate
              /\ viz'.isDragging = viz.isDragging
        /\ ((PointerMove \/ Wheel) /\ viz'.spherical # viz.spherical) =>
              viz'.needsCameraUpdate ]_vars

\* C31 witness: a drag is armed and has turned the rig both ways, and the
\* camera is marked dirty
C31_Witness ==
    /\ viz.isDragging
    /\ viz.spherical.theta # InitialSpherical.theta
    /\ viz.spherical.phi # InitialSpherical.phi
    /\ viz.needsCameraUpdate

\* the rig is inside the polar band and the radius range
InBand(sph) ==
    /\ MIN_POLAR_ANGLE <= sph.phi /\ sph.phi <= MAX_POLAR_ANGLE
    /\ MIN_RADIUS <= sph.radius /\ sph.radius <= MAX_RADIUS

\* C14: at every draw, and after construction, the rig's polar angle is in
\* [0.15, pi - 0.15], its radius in [3, 28], and the camera position is the
\* one set from that rig, whatever drags and wheel events came before.
C14_DrawUsesClampedRig ==
    (viz.drawn \/ viz = NewViz) =>
        /\ InBand(viz.spherical)
        /\ viz.cameraPosition = setFromSpherical(viz.spherical)

\* C14 witness: a draw after gestures pushed the rig below the polar band
\* and beyond the largest radius
C14_Witness ==
    /\ viz.drawn
    /\ viz.gestures > 0
    /\ viz.spherical.phi = MIN_POLAR_ANGLE
    /\ viz.spherical.radius = MAX_RADIUS

\* C15: in every reachable state, whether or not a frame has run since the
\* last event, the stored polar angle and radius are inside their ranges.
C15_RigAlwaysClamped ==
    InBand(viz.spherical)

\* C15 as amended: the stored rig is inside its ranges whenever no camera
\* update is pending, i.e. once a frame has run since the last gesture.
C15_RigClampedOnceFrameRan ==
    ~viz.needsCameraUpdate => InBand(viz.spherical)

\* C15 witness: no update pending, after a drag that was clamped at the top
\* of the polar band
C15_Witness ==
    /\ ~viz.needsCameraUpdate
    /\ viz.gestures > 0
    /\ viz.spherical.phi = MAX_POLAR_ANGLE

\* the vectors and the position of every object that is in the scene
SceneCoordinates ==
    UNION { { viz.objects[h].position.x, viz.objects[h].position.y,
              viz.objects[h].position.z } \cup
            UNION { { viz.objects[h].vectors[i].x, viz.objects[h].vectors[i].y,
                      viz.objects[h].vectors[i].z } :
                    i \in DOMAIN viz.objects[h].vectors } :
            h \in viz.scene } \cup
    UNION { { viz.asteroidPathVectors[i].x, viz.asteroidPathVectors[i].y,
              viz.asteroidPathVectors[i].z } : i \in DOMAIN viz.asteroidPathVectors }

\* C26: whatever malformed coordinates the points passed to renderPaths()
\* carry, no coordinate of the baseline orbit line, of the deflected orbit
\* line or of the marker's path is NaN: a malformed field is placed as 0.
C26_NoNaNInScene == NaN \notin SceneCoordinates

\* the marker's position
MarkerPosition == viz.objects[viz.asteroidMarker].position

\* C27: for a deflected path of any length n and any number of frames the
\* marker animation reads inside the path only.  With n = 0 there is no
\* marker and no frame reads the path; with n = 1 the only index read is 0
\* and the marker is at the single point; with n >= 2 progress stays in
\* [0, 1), the current index is floor(progress * n) within 0..n-1 and the
\* next index is the current one plus 1, wrapping to 0 after n-1.  After
\* renderPaths(), before the next frame, progress is 0 and the marker is at
\* the first point.
C27_MarkerReadsInsidePath ==
    LET n == Len(viz.asteroidPathVectors)
        reads == viz.markerReads
    IN  /\ viz.asteroidProgress >= 0 /\ viz.asteroidProgress < ONE_LAP
        /\ (n = 0) <=> (viz.asteroidMarker = Null)
        /\ n = 0 => reads = <<>>
        /\ \A i \in DOMAIN reads : reads[i] >= 0 /\ reads[i] <= n - 1
        /\ (n = 1 /\ reads # <<>>) => (reads = <<0>> /\ MarkerPosition = viz.asteroidPathVectors[1])
        /\ (n >= 2 /\ reads # <<>>) =>
              /\ reads[1] = (viz.asteroidProgress * n) \div ONE_LAP
              /\ reads[2] = IF reads[1] = n - 1 THEN 0 ELSE reads[1] + 1
        /\ (n >= 1 /\ reads = <<>>) =>
              /\ viz.asteroidProgress = 0
              /\ MarkerPosition = viz.asteroidPathVectors[1]

\* C27 witness: on a path of two points a frame has read the last point and
\* wrapped to the first
C27_Witness ==
    /\ Len(viz.asteroidPathVectors) = 2
    /\ viz.markerReads = <<1, 0>>
    /\ viz.renders = MaxRenders

(* ---------- simulationUtils: estimateDeflectionOutcome ---------- *)
(* Fixed point: velocities and delta-v in m/s, masses in tonnes, energy
   in units of 500 J (tonnes * (m/s)^2), energy_mt in 10^-12 Mt, crater
   diameters in mm, seismic magnitude in 1/1000, path coordinates and MOIDs
   in units of 100 000 km, angles in 1/100 rad, sines, cosines and factors
   in 1/10000. *)

MaxVelocityMs == 5
MaxDv == 5

Max(a, b) == IF a >= b THEN a ELSE b

Min(a, b) == IF a <= b THEN a ELSE b

Abs(a) == IF a >= 0 THEN a ELSE 0 - a

\* a / d with the quotient rounded toward zero, as a rounded product is
Quot(a, d) == IF a >= 0 THEN a \div d ELSE 0 - ((0 - a) \div d)

\* a * n / d without leaving 32 bits, for a >= 0
MulDiv(a, n, d) == (a \div d) * n + ((a % d) * n) \div d

\* x * x <= n, within 32 bits
SquareAtMost(x, n) == x = 0 \/ x <= n \div x

\* x * x * x <= n, within 32 bits
CubeAtMost(x, n) == x = 0 \/ x <= (n \div x) \div x

\* the largest digit k with (base + step * k)^2 <= n
SqrtDigit(base, step, n) ==
    CHOOSE k \in 0 .. 46 : /\ SquareAtMost(base + step * k, n)
                           /\ ~SquareAtMost(base + step * (k + 1), n)

\* the largest digit k with (base + step * k)^3 <= n
CbrtDigit(base, step, n) ==
    CHOOSE k \in 0 .. 12 : /\ CubeAtMost(base + step * k, n)
                           /\ ~CubeAtMost(base + step * (k + 1), n)

\* Math.sqrt on the grid, for 0 <= n < 2^31, digit by digit
Sqrt(n) ==
    LET a == 1000 * SqrtDigit(0, 1000, n)
        b == a + 100 * SqrtDigit(a, 100, n)
        c == b + 10 * SqrtDigit(b, 10, n)
    IN  c + SqrtDigit(c, 1, n)

\* Math.cbrt on the grid, for 0 <= n < 2^31, digit by digit
Cbrt(n) ==
    LET a == 100 * CbrtDigit(0, 100, n)
        b == a + 10 * CbrtDigit(a, 10, n)
    IN  b + CbrtDigit(b, 1, n)

\* Math.hypot(x, y)
Hypot(x, y) == Sqrt(x * x + y * y)

\* Math.sin at 0, 0.01, ..., 1.57 rad
SinTable ==
    << 0, 100, 200, 300, 400, 500, 600, 699, 799, 899, 998, 1098,
       1197, 1296, 1395, 1494, 1593, 1692, 1790, 1889, 1987, 2085, 2182, 2280,
       2377, 2474, 2571, 2667, 2764, 2860, 2955, 3051, 3146, 3240, 3335, 3429,
       3523, 3616, 3709, 3802, 3894, 3986, 4078, 4169, 4259, 4350, 4439, 4529,
       4618, 4706, 4794, 4882, 4969, 5055, 5141, 5227, 5312, 5396, 5480, 5564,
       5646, 5729, 5810, 5891, 5972, 6052, 6131, 6210, 6288, 6365, 6442, 6518,
       6594, 6669, 6743, 6816, 6889, 6961, 7033, 7104, 7174, 7243, 7311, 7379,
       7446, 7513, 7578, 7643, 7707, 7771, 7833, 7895, 7956, 8016, 8076, 8134,
       8192, 8249, 8305, 8360, 8415, 8468, 8521, 8573, 8624, 8674, 8724, 8772,
       8820, 8866, 8912, 8957, 9001, 9044, 9086, 9128, 9168, 9208, 9246, 9284,
       9320, 9356, 9391, 9425, 9458, 9490, 9521, 9551, 9580, 9608, 9636, 9662,
       9687, 9711, 9735, 9757, 9779, 9799, 9819, 9837, 9854, 9871, 9887, 9901,
       9915, 9927, 9939, 9949, 9959, 9967, 9975, 9982, 9987, 9992, 9995, 9998,
       9999, 10000 >>

HALF_PI == 157

\* Math.sin(a), a in 1/100 rad
Sin(a) ==
    LET r == a % (4 * HALF_PI)
    IN IF r <= HALF_PI THEN SinTable[r + 1]
       ELSE IF r <= 2 * HALF_PI THEN SinTable[2 * HALF_PI - r + 1]
       ELSE IF r <= 3 * HALF_PI THEN 0 - SinTable[r - 2 * HALF_PI + 1]
       ELSE 0 - SinTable[4 * HALF_PI - r + 1]

\* Math.cos(a)
Cos(a) == Sin(a + HALF_PI)

\* the angle a of the first quadrant is not beyond the direction of (x, y)
NotBeyond(a, y, x) == a <= HALF_PI /\ Sin(a) * x <= Cos(a) * y

\* the largest digit k with the angle base + step * k not beyond the
\* direction of (x, y)
AngleDigit(base, step, y, x) ==
    CHOOSE k \in 0 .. 15 : /\ NotBeyond(base + step * k, y, x)
                           /\ ~NotBeyond(base + step * (k + 1), y, x)

\* the largest angle of the first quadrant not beyond the direction of
\* (x, y), for x, y >= 0
AngleIn(y, x) ==
    LET tens == 10 * AngleDigit(0, 10, y, x)
    IN  tens + AngleDigit(tens, 1, y, x)

\* Math.atan2(y, x), in -314..314
Atan2(y, x) ==
    LET a == AngleIn(Abs(y), Abs(x))
    IN IF x = 0 /\ y = 0 THEN 0
       ELSE IF x >= 0 /\ y >= 0 THEN a
       ELSE IF x < 0 /\ y >= 0 THEN 2 * HALF_PI - a
       ELSE IF x < 0 THEN a - 2 * HALF_PI
       ELSE 0 - a

\* 100 * 10^(k/10) for k = 1..9
DecadeTenths == <<126, 158, 200, 251, 316, 398, 501, 631, 794>>

PowersOfTen == <<1, 10, 100, 1000, 10000, 100000, 1000000, 10000000, 100000000, 1000000000>>

Pow10(k) == PowersOfTen[k + 1]

\* the number of decimal digits of n >= 1
Digits(n) == Cardinality({ k \in 0 .. 9 : Pow10(k) <= n })

\* Math.log10(n) in tenths, for n >= 1
Log10(n) ==
    LET d == Digits(n) - 1
        lead == IF d >= 2 THEN n \div Pow10(d - 2) ELSE n * Pow10(2 - d)
    IN 10 * d + Cardinality({ k \in 1..9 : DecadeTenths[k] <= lead })

(* ---------- estimator inputs ---------- *)

\* velocity_kms * 1000 of a payload or of template.inputs, absent or in m/s
Velocities == {Null} \cup (0 .. MaxVelocityMs)

\* deflection_delta_v of a payload, absent or in m/s
PayloadDeltaVs == {Null} \cup (0 .. MaxDv)

\* diameter_m of a payload
Diameters == {Null, 10, 210}

\* template.energy.mass_kg: absent, 0 (what the estimator itself returns for
\* a payload without a diameter) or the offline template's 14 547 144 782 kg
TemplateMasses == {Null, 0, 14547145}

\* two points of the offline template's deflected path (indices 1 and 24)
EstPointA == [x |-> 1508, y |-> 225, z |-> 24]

EstPointB == [x |-> 0 - 1131, y |-> 1023, z |-> 433]

\* the deflected paths tried: none, one or two of these points
EstPaths == { <<>>, <<EstPointA>>, <<EstPointA, EstPointB>>, <<EstPointB, EstPointA>> }

\* template.orbital_solution when the template has none
NoOrbitalSolution ==
    [present |-> FALSE, baseline_path |-> AbsentPath, deflected_path |-> AbsentPath,
     baseline_moid_km |-> Null]

\* baseline paths: absent, or the first point of the offline baseline path;
\* baseline_moid_km: absent, or the offline template's 91 000 km
OrbitalSolutions ==
    {NoOrbitalSolution} \cup
    [present : {TRUE},
     baseline_path : {AbsentPath, [present |-> TRUE, points |-> << [x |-> 1500, y |-> 0, z |-> 0] >>]},
     deflected_path : {AbsentPath} \cup { [present |-> TRUE, points |-> q] : q \in EstPaths },
     baseline_moid_km : {Null, 1}]

\* a path that is present but not an array (an object, a string)
NotAnArray == [present |-> TRUE, points |-> <<>>, isArray |-> FALSE]

\* Array.isArray(path), for a path that is present
IsArray(path) == "isArray" \notin DOMAIN path

\* a template: mass_kg is template.energy.mass_kg; velocity_kms, diameter_m
\* and deflection_delta_v are the fields of template.inputs; present is
\* FALSE for null or undefined in place of the template
Templates ==
    [present : {TRUE}, mass_kg : TemplateMasses, velocity_kms : {Null, 2},
     diameter_m : {Null}, deflection_delta_v : {Null},
     orbital_solution : OrbitalSolutions]

\* null or undefined in place of the template
NoTemplate ==
    [present |-> FALSE, mass_kg |-> Null, velocity_kms |-> Null, diameter_m |-> Null,
     deflection_delta_v |-> Null, orbital_solution |-> NoOrbitalSolution]

\* orbital solutions with a missing, empty, one-point or malformed path
AnyOrbitalSolutions ==
    {NoOrbitalSolution} \cup
    [present : {TRUE},
     baseline_path : {AbsentPath, NotAnArray},
     deflected_path : {AbsentPath, NotAnArray, [present |-> TRUE, points |-> <<EstPointA>>]},
     baseline_moid_km : {Null}]

\* templates with any block missing, with inputs of their own, or absent
AnyTemplates ==
    {NoTemplate} \cup
    [present : {TRUE}, mass_kg : TemplateMasses, velocity_kms : {Null, 2},
     diameter_m : {Null, 210}, deflection_delta_v : {Null, 1},
     orbital_solution : AnyOrbitalSolutions]

Payloads ==
    [diameter_m : Diameters, velocity_kms : Velocities, deflection_delta_v : PayloadDeltaVs]

(* ---------- estimateDeflectionOutcome ---------- *)

\* a ?? b
Coalesce(a, b) == IF a # Null THEN a ELSE b

\* tonnes per cubic metre
ASTEROID_DENSITY == 3

computeMassFromDiameter(diameterMeters, templateMassKg) ==
    LET d == Max(Coalesce(diameterMeters, 0), 0)
    IN MulDiv(d * d * d, (4 * PI * ASTEROID_DENSITY) \div (3 * 8), 10000)

\* (4/3) * pi * (d/2)^3 * ASTEROID_DENSITY, unless the template carries a mass
computeApproximateMass(diameterMeters, templateMassKg) ==
    IF templateMassKg # Null /\ templateMassKg # 0 THEN templateMassKg
    ELSE LET d == Max(Coalesce(diameterMeters, 0), 0)
         IN MulDiv(d * d * d, (4 * PI * ASTEROID_DENSITY) \div (3 * 8), 10000)

effectiveVelocityNoFloor(velocityMs, deltaV) ==
    velocityMs - deltaV

effectiveVelocityMs(velocityMs, deltaV) ==
    Max(velocityMs - deltaV, 1)

\* 0.5 * massKg * v^2, in units of 500 J
energyJoules(massKg, v) == massKg * v * v

\* energyJoules / TNT_JOULES: 500 J = 125/1046 * 10^-12 Mt
energyMt(joules) == MulDiv(joules, 125, 1046)

\* 0.11 km * cbrt(energyMt) is 11 mm * cbrt(energy in 10^-12 Mt)
craterKmOf(mt) == Max(0, 11 * Cbrt(Max(mt, 0)))

\* log10 of the energy in joules: log10(500) = 2.7
Log10Joules(joules) == IF joules < 1 THEN 0 ELSE Log10(joules) + 27

seismicMagnitudeNoFloor(joules) ==
    67 * Log10Joules(joules) - 5800

seismicMagnitude(joules) ==
    Max(0, 67 * Log10Joules(joules) - 5800)

\* one astronomical unit, 149 597 870.7 km
AU_KM == 1496

\* |distance - AU_KM| of one point
MoidDifference(p) ==
    LET distance == Sqrt(p.x * p.x + p.y * p.y + p.z * p.z)
    IN  Abs(distance - AU_KM)

\* the smallest |distance - AU_KM| over the points, 0 for no points
approximateMoidKm(points) ==
    IF Len(points) = 0 THEN 0
    ELSE LET diffs == { MoidDifference(points[i]) : i \in DOMAIN points }
         IN  CHOOSE minDifference \in diffs : \A d \in diffs : minDifference <= d

adjustmentFactorUnclamped(velocityMs, deltaV) ==
    IF velocityMs > 0 THEN Quot(deltaV * 10000, velocityMs) ELSE 0

adjustmentFactor(velocityMs, deltaV) ==
    LET velocityRatio == IF velocityMs > 0 THEN Quot(deltaV * 10000, velocityMs) ELSE 0
    IN Min(Max(velocityRatio, 0 - 8000), 8000)

\* one point of the deflected path; index counts from 0
deflectPoint(point, index, pathLength, factor) ==
    LET angle == Atan2(point.y, point.x)
        radius == Hypot(point.x, point.y)
        scale == 10000 + Quot(factor * 32, 100)
        phaseShift == Quot(factor * 45, 10000)
        wave == Sin((index * 4 * HALF_PI) \div pathLength + Quot(factor * 160, 10000))
        verticalOffset == Quot(24 * Quot(factor * wave, 10000), 10000)
        scaled == Quot(radius * scale, 10000)
    IN [x |-> Quot(scaled * Cos(angle + phaseShift), 10000),
        y |-> Quot(scaled * Sin(angle + phaseShift), 10000),
        z |-> Quot(point.z * (10000 - Quot(factor * 20, 100)), 10000) + verticalOffset]

\* the result's fields when the template has no orbital_solution
NoOrbitResult ==
    [present |-> FALSE, baseline_path |-> <<>>, deflected_path |-> <<>>,
     baseline_moid_km |-> Null, deflected_moid_km |-> Null, moid_change_km |-> Null]

estimateOrbit(orbital_solution, velocityMs, deltaV) ==
    IF ~orbital_solution.present THEN NoOrbitResult
    ELSE LET templateBaseline == IF orbital_solution.baseline_path.present
                                 THEN orbital_solution.baseline_path.points ELSE <<>>
             templateDeflected == IF orbital_solution.deflected_path.present
                                  THEN orbital_solution.deflected_path.points
                                  ELSE templateBaseline
             pathLength == IF Len(templateDeflected) # 0 THEN Len(templateDeflected)
                           ELSE IF Len(templateBaseline) # 0 THEN Len(templateBaseline)
                           ELSE 1
             factor == adjustmentFactor(velocityMs, deltaV)
             deflectedPath == [i \in 1 .. Len(templateDeflected) |->
                                  deflectPoint(templateDeflected[i], i - 1, pathLength, factor)]
             baselinePath == templateBaseline
             baselineMoid == Coalesce(orbital_solution.baseline_moid_km,
                                      approximateMoidKm(baselinePath))
             deflectedMoid == approximateMoidKm(deflectedPath)
         IN [present |-> TRUE, baseline_path |-> baselinePath,
             deflected_path |-> deflectedPath,
             baseline_moid_km |-> baselineMoid,
             deflected_moid_km |-> Max(0, deflectedMoid),
             moid_change_km |-> baselineMoid - deflectedMoid]

\* { ...template.inputs, ...payload }: a field the payload omits (Null) is
\* the template's
mergedInputs(template, payload) ==
    [diameter_m |-> Coalesce(payload.diameter_m, template.diameter_m),
     velocity_kms |-> Coalesce(payload.velocity_kms, template.velocity_kms),
     deflection_delta_v |-> Coalesce(payload.deflection_delta_v, template.deflection_delta_v)]

\* path.map(...) is a TypeError when the path is not an array
mapThrows(path) == path.present /\ ~IsArray(path)

\* a result that is no scenario: outcome is "pending" before the call, "null"
\* for a returned null and "throws" for an exception
NoScenario(outcome) ==
    [outcome |-> outcome,
     inputs |-> [diameter_m |-> Null, velocity_kms |-> Null, deflection_delta_v |-> Null],
     mass_kg |-> Null, effective_velocity_ms |-> Null, energy_joules |-> Null,
     energy_mt |-> Null, crater_diameter_km |-> Null, seismic_magnitude |-> Null,
     orbital_solution |-> NoOrbitResult]

estimateDeflectionOutcome(template, payload) ==
    LET massKg == computeApproximateMass(payload.diameter_m, template.mass_kg)
        velocityMs == Coalesce(payload.velocity_kms, Coalesce(template.velocity_kms, 0))
        deltaV == Coalesce(payload.deflection_delta_v, 0)
        v == effectiveVelocityMs(velocityMs, deltaV)
        joules == energyJoules(massKg, v)
    IN IF ~template.present THEN NoScenario("null")
       ELSE IF /\ template.orbital_solution.present
               /\ \/ mapThrows(template.orbital_solution.deflected_path)
                  \/ mapThrows(template.orbital_solution.baseline_path)
       THEN NoScenario("throws")
       ELSE [outcome |-> "scenario",
             inputs |-> mergedInputs(template, payload),
             mass_kg |-> massKg, effective_velocity_ms |-> v,
             energy_joules |-> joules, energy_mt |-> energyMt(joules),
             crater_diameter_km |-> craterKmOf(energyMt(joules)),
             seismic_magnitude |-> seismicMagnitude(joules),
             orbital_solution |-> estimateOrbit(template.orbital_solution, velocityMs, deltaV)]

(* ---------- the estimator applied to one input ---------- *)

\* est.result before the call
NoResult == NoScenario("pending")

EstInit ==
    /\ DmInit
    /\ viz = Unused
    /\ est \in [template : Templates, payload : Payloads, called : {FALSE}, result : {NoResult}]
    /\ mc = Unused
    /\ hp = Unused
    /\ pg = Unused
    /\ sim = Unused

Estimate ==
    /\ ~est.called
    /\ est' = [est EXCEPT !.called = TRUE,
                          !.result = estimateDeflectionOutcome(est.template, est.payload)]
    /\ UNCHANGED <<dmVars, viz, mc, hp, sim, pg>>

EstNext == Estimate

SpecEst == EstInit /\ [][EstNext]_vars

\* the estimator on any template: absent, with blocks or paths missing or
\* malformed, with inputs of its own
EstAnyInit ==
    /\ DmInit
    /\ viz = Unused
    /\ est \in [template : AnyTemplates, payload : Payloads, called : {FALSE}, result : {NoResult}]
    /\ mc = Unused
    /\ hp = Unused
    /\ pg = Unused
    /\ sim = Unused

SpecEstAny == EstAnyInit /\ [][EstNext]_vars

(* ---------- properties of the estimator ---------- *)

\* the estimator was called with delta-v 0 (or none) on a template that has
\* an orbital solution with a deflected path
ZeroDeltaVOnPath ==
    /\ est.called
    /\ est.template.orbital_solution.present
    /\ est.template.orbital_solution.deflected_path.present
    /\ Coalesce(est.payload.deflection_delta_v, 0) = 0

\* C16: with deflection_delta_v = 0 the returned deflected_path equals the
\* template's deflected path point for point.
C16_ZeroDeltaVReproducesPath ==
    ZeroDeltaVOnPath =>
        est.result.orbital_solution.deflected_path
            = est.template.orbital_solution.deflected_path.points

\* C17: with deflection_delta_v = 0 the returned deflected_moid_km equals the
\* returned baseline_moid_km, for every template with an orbital solution.
C17_ZeroDeltaVKeepsMoid ==
    (/\ est.called
     /\ est.template.orbital_solution.present
     /\ Coalesce(est.payload.deflection_delta_v, 0) = 0) =>
        est.result.orbital_solution.deflected_moid_km
            = est.result.orbital_solution.baseline_moid_km

\* diameter > 0, velocity > 0, delta_v >= 0, template mass absent or positive
ValidInputs ==
    /\ est.payload.diameter_m # Null /\ est.payload.diameter_m > 0
    /\ est.payload.velocity_kms # Null /\ est.payload.velocity_kms > 0
    /\ est.payload.deflection_delta_v # Null /\ est.payload.deflection_delta_v >= 0
    /\ est.template.mass_kg = Null \/ est.template.mass_kg > 0

\* C18: for valid inputs the returned energy_mt, crater_diameter_km,
\* seismic_magnitude and deflected_moid_km are >= 0 and the effective
\* velocity is >= 1 m/s.
C18_OutputsNonNegative ==
    (est.called /\ ValidInputs) =>
        /\ est.result.energy_mt >= 0
        /\ est.result.crater_diameter_km >= 0
        /\ est.result.seismic_magnitude >= 0
        /\ est.result.effective_velocity_ms >= 1
        /\ est.result.orbital_solution.present =>
               est.result.orbital_solution.deflected_moid_km >= 0

\* C18 witness: valid inputs whose delta-v exceeds the velocity and whose
\* energy is too small for a positive magnitude, on a template with a path
C18_Witness ==
    /\ est.called /\ ValidInputs
    /\ est.payload.deflection_delta_v > est.payload.velocity_kms
    /\ est.result.effective_velocity_ms = 1
    /\ est.result.seismic_magnitude = 0
    /\ est.result.energy_mt > 0
    /\ Len(est.result.orbital_solution.deflected_path) > 0

\* the result for the same template and payload but another velocity
WithVelocity(v) ==
    estimateDeflectionOutcome(est.template, [est.payload EXCEPT !.velocity_kms = v])

\* the result for the same template and payload but another delta-v
WithDeltaV(dv) ==
    estimateDeflectionOutcome(est.template, [est.payload EXCEPT !.deflection_delta_v = dv])

\* C19: template and delta_v fixed, a velocity v2 >= v never gives a smaller
\* energy_mt or crater_diameter_km than v, the floored region included.
C19_EnergyMonotoneInVelocity ==
    (est.called /\ est.payload.velocity_kms # Null) =>
        \A v2 \in 0 .. MaxVelocityMs :
            v2 >= est.payload.velocity_kms =>
                LET faster == WithVelocity(v2)
                IN /\ est.result.energy_mt <= faster.energy_mt
                   /\ est.result.crater_diameter_km <= faster.crater_diameter_km

\* C19 witness: a velocity inside the floored region, and a larger velocity
\* outside it that gives a strictly larger crater
C19_Witness ==
    /\ est.called
    /\ est.payload.velocity_kms # Null /\ est.payload.deflection_delta_v # Null
    /\ est.payload.velocity_kms < est.payload.deflection_delta_v
    /\ est.result.effective_velocity_ms = 1
    /\ \E v2 \in 0 .. MaxVelocityMs :
          /\ v2 > est.payload.deflection_delta_v + 1
          /\ WithVelocity(v2).crater_diameter_km > est.result.crater_diameter_km

\* the velocity is positive and the delta-v dv is at least 0.8 of it
Saturating(dv) ==
    /\ est.payload.velocity_kms # Null /\ est.payload.velocity_kms > 0
    /\ dv # Null /\ 10 * dv >= 8 * est.payload.velocity_kms

\* C20: for a velocity v > 0 every delta_v >= 0.8 * v yields the same
\* deflected_path and deflected_moid_km (the factor saturates at 0.8); a
\* velocity that is not positive yields the path of delta_v = 0; and
\* deflected_moid_km is never negative.
C20_FactorSaturates ==
    (est.called /\ est.template.orbital_solution.present) =>
        /\ Saturating(est.payload.deflection_delta_v) =>
              \A dv2 \in 0 .. MaxDv :
                  Saturating(dv2) =>
                      LET other == WithDeltaV(dv2).orbital_solution
                      IN /\ other.deflected_path = est.result.orbital_solution.deflected_path
                         /\ other.deflected_moid_km
                               = est.result.orbital_solution.deflected_moid_km
        /\ est.payload.velocity_kms = 0 =>
              WithDeltaV(0).orbital_solution.deflected_path
                  = est.result.orbital_solution.deflected_path
        /\ est.result.orbital_solution.deflected_moid_km >= 0

\* C20 witness: delta_v above 0.8 * v while delta_v = 0.8 * v is also tried,
\* on a path that the saturated factor moves
C20_Witness ==
    /\ est.called /\ est.template.orbital_solution.present
    /\ Saturating(est.payload.deflection_delta_v)
    /\ 10 * est.payload.deflection_delta_v > 8 * est.payload.velocity_kms
    /\ \E dv2 \in 0 .. MaxDv : 10 * dv2 = 8 * est.payload.velocity_kms
    /\ Len(est.result.orbital_solution.deflected_path) > 0
    /\ WithDeltaV(0).orbital_solution.deflected_path
           # est.result.orbital_solution.deflected_path

(* ---------- properties of the estimator on any template ---------- *)

\* C22: the call returns null exactly when the template is absent, and for
\* every present template, whatever block or path is missing or malformed,
\* and every payload it returns a scenario and does not throw.
C22_NullOnlyForAbsentNeverThrows ==
    est.called =>
        /\ (est.result.outcome = "null") <=> ~est.template.present
        /\ est.result.outcome # "throws"

\* a path that is missing or an empty array
EmptyOrMissing(path) == ~path.present \/ (IsArray(path) /\ Len(path.points) = 0)

\* C25: for a template whose orbital_solution has empty or missing
\* baseline_path and deflected_path the returned paths are empty and
\* baseline_moid_km and deflected_moid_km are both 0.
C25_EmptyPathsGiveZeroMoid ==
    (/\ est.called
     /\ est.template.orbital_solution.present
     /\ EmptyOrMissing(est.template.orbital_solution.baseline_path)
     /\ EmptyOrMissing(est.template.orbital_solution.deflected_path)) =>
        /\ est.result.orbital_solution.baseline_path = <<>>
        /\ est.result.orbital_solution.deflected_path = <<>>
        /\ est.result.orbital_solution.baseline_moid_km = 0
        /\ est.result.orbital_solution.deflected_moid_km = 0

\* the returned mass and energy are those of the template's mass
TemplateMassUsed ==
    /\ est.result.mass_kg = est.template.mass_kg
    /\ est.result.energy_joules
           = energyJoules(est.template.mass_kg, est.result.effective_velocity_ms)

\* C28 as stated: whenever template.energy.mass_kg is present the returned
\* mass is that mass and the energy is computed from it, whatever diameter_m
\* the payload gives.
C28_PresentTemplateMassUsed ==
    (est.called /\ est.template.mass_kg # Null) => TemplateMassUsed

\* C28 amended: whenever template.energy.mass_kg is present and not 0 the
\* returned mass is that mass and the energy is computed from it, whatever
\* diameter_m the payload gives.
C28_NonZeroTemplateMassUsed ==
    (est.called /\ est.template.mass_kg # Null /\ est.template.mass_kg # 0) =>
        TemplateMassUsed

\* C28 witness: a template mass and a payload diameter whose sphere has
\* another mass
C28_Witness ==
    /\ est.called
    /\ est.template.mass_kg # Null /\ est.template.mass_kg # 0
    /\ est.payload.diameter_m # Null
    /\ computeApproximateMass(est.payload.diameter_m, Null) # est.template.mass_kg
    /\ computeApproximateMass(est.payload.diameter_m, Null) > 0
    /\ est.result.mass_kg = est.template.mass_kg

\* C29: when the template carries no mass the returned energy.mass_kg is the
\* mass of a sphere of the returned inputs.diameter_m (the payload's diameter
\* if given, else the template's) at ASTEROID_DENSITY.
C29_MassFromMergedDiameter ==
    (est.called /\ est.result.outcome = "scenario" /\ est.template.mass_kg = Null) =>
        est.result.mass_kg = computeApproximateMass(est.result.inputs.diameter_m, Null)

\* C30: in every returned scenario effective_velocity_ms is
\* max(inputs.velocity_kms * 1000 - inputs.deflection_delta_v, 1) on the
\* returned, merged inputs.
C30_VelocityFromMergedInputs ==
    (est.called /\ est.result.outcome = "scenario") =>
        est.result.effective_velocity_ms
            = Max(Coalesce(est.result.inputs.velocity_kms, 0)
                    - Coalesce(est.result.inputs.deflection_delta_v, 0), 1)

(* ---------- mission control (main.js) ---------- *)
(* One page: the delta-v slider, the debounce timer of scheduleSimulation,
   the /api/simulate requests in flight, the asteroid catalog load, and the
   DefenseMode controller above.  A handler runs to completion; a request's
   response or failure is a later event.  What a rendered data set holds is
   kept as its crater diameter and its inputs.deflection_delta_v. *)

\* requests that may be in flight at once
MaxInflight == 2

\* OFFLINE_BASELINE.impact_effects.crater_diameter_km (1.16)
OFFLINE_CRATER == 1

\* positions of the delta-v slider
SliderDeltaVs == 0 .. MaxDeltaV

\* a runSimulation call: where it was made, for the call made on arming the
\* session it armed, the payload's deflection_delta_v and the
\* skipDefenseCheck option
Request(origin, w, deltaV, skipDefenseCheck) ==
    [origin |-> origin, session |-> IF origin = "start" THEN w.session ELSE 0,
     deltaV |-> deltaV, skip |-> skipDefenseCheck]

NoRequest == [origin |-> "none", session |-> 0, deltaV |-> 0, skip |-> FALSE]

\* pendingSimulationHandle: no timer, or a timer holding its options
NoTimer == [pending |-> FALSE, skip |-> FALSE]

\* the page after initMissionControl: sliders at rest, catalog being loaded
\* listed: the select lists the catalog's asteroids, which may include
\* 'Impactor-2025', rather than the fallback option alone; evaluated: the
\* handler that ran last called evaluateAttempt
NewMission ==
    [deltaV |-> 0, timer |-> NoTimer, inflight |-> {}, offline |-> TRUE,
     catalogLoading |-> TRUE, baselineOf |-> NoRequest, listed |-> FALSE,
     evaluated |-> FALSE]

clearStatusMessage(s) ==
    IF isActive(s.w) THEN s ELSE [s EXCEPT !.w = _resetMessage(@)]

\* the defense part of renderSimulation; `from` is the request rendered
renderSimulation(s, craterKm, deltaV, skipDefenseCheck, from) ==
    IF ~isActive(s.w) THEN s
    ELSE IF ~hasBaseline(s.w)
         THEN [s EXCEPT !.w = recordBaseline(@, craterKm), !.m.baselineOf = from]
    ELSE IF ~skipDefenseCheck
         THEN [s EXCEPT !.w = evaluateAttempt(@, craterKm, deltaV), !.m.evaluated = TRUE]
    ELSE s

scheduleSimulation(s, skipDefenseCheck) ==
    [s EXCEPT !.m.timer = [pending |-> TRUE, skip |-> skipDefenseCheck]]

\* runSimulation up to its first await: the offline asteroid is rendered at
\* once from OFFLINE_BASELINE, any other asteroid is requested from the server
runSimulation(s, origin, skipDefenseCheck) ==
    LET s1 == [s EXCEPT !.m.timer = NoTimer]
        r == Request(origin, s.w, s.m.deltaV, skipDefenseCheck)
    IN  IF s.m.offline
        THEN clearStatusMessage(renderSimulation(s1, OFFLINE_CRATER, r.deltaV, TRUE, r))
        ELSE [s1 EXCEPT !.m.inflight = @ \cup {r}]

\* runSimulation after `await fetch`, the response being ok
simulationResponse(s, r, craterKm) ==
    LET s1 == [s EXCEPT !.m.inflight = @ \ {r}]
    IN  clearStatusMessage(renderSimulation(s1, craterKm, r.deltaV, r.skip, r))

\* runSimulation's catch branch: the fallback data, or while defense is
\* active the estimator's data for the payload, is rendered
simulationFailure(s, r, craterKm) ==
    LET s1 == [s EXCEPT !.m.inflight = @ \ {r}]
        isDefenseActive == isActive(s1.w)
    IN  renderSimulation(clearStatusMessage(s1), craterKm, r.deltaV, ~isDefenseActive, r)

resetDefenseStateUI(s) ==
    [s EXCEPT !.w = _resetMessage(cancel(@)), !.m.baselineOf = NoRequest]

\* the defense button's click handler
defenseClick(s) ==
    IF isActive(s.w)
    THEN LET s1 == resetDefenseStateUI(s)
             s2 == [s1 EXCEPT !.m.deltaV = 0]
         IN  runSimulation(s2, "abort", FALSE)
    ELSE LET s1 == [s EXCEPT !.w = start(@), !.m.baselineOf = NoRequest]
             s2 == [s1 EXCEPT !.m.deltaV = 0]
         IN  runSimulation(s2, "start", TRUE)

\* an input event of the delta-v slider
sliderInput(s, deltaV) ==
    scheduleSimulation([s EXCEPT !.m.deltaV = deltaV], FALSE)

\* the debounce timer's callback
debounceFired(s) ==
    LET skipDefenseCheck == s.m.timer.skip
    IN  runSimulation([s EXCEPT !.m.timer = NoTimer],
                      IF skipDefenseCheck THEN "init" ELSE "slider", skipDefenseCheck)

\* loadAsteroidCatalog settles, then the first simulation is scheduled
catalogLoaded(s, listed, offline) ==
    scheduleSimulation([s EXCEPT !.m.offline = offline, !.m.listed = listed,
                                 !.m.catalogLoading = FALSE], TRUE)

\* the select's change handler: applyCatalogDefaults puts the delta-v slider
\* to 0, the defense state is reset and a simulation is scheduled
asteroidChange(s, offline) ==
    LET s1 == [s EXCEPT !.m.offline = offline, !.m.deltaV = 0]
    IN  scheduleSimulation(resetDefenseStateUI(s1), FALSE)

\* a frame of the countdown tween; onExpire is runSimulation({}, {skipDefenseCheck: true})
countdownFrame(s, h) ==
    LET s1 == [s EXCEPT !.w = tweenFrame(@, h)]
    IN  IF \E i \in DOMAIN s1.w.calls : s1.w.calls[i] = "onExpire"
        THEN runSimulation(s1, "expire", TRUE)
        ELSE s1

MissionInit ==
    /\ DmInit
    /\ viz = Unused
    /\ est = Unused
    /\ mc = NewMission
    /\ hp = Unused
    /\ pg = Unused
    /\ sim = Unused

MissionEntry == [w |-> Entry, m |-> [mc EXCEPT !.evaluated = FALSE]]

\* the histories of the controller called on its own (ended, fired,
\* resolutions, lastOp, pre) are not kept here
MissionCommit(s) ==
    /\ CommitWorld([s.w EXCEPT !.ended = <<>>, !.fired = {}, !.resolutions = 0])
    /\ mc' = s.m
    /\ UNCHANGED <<lastOp, pre, viz, est, hp, sim, pg>>

\* room for one more request, where the handler may issue one
MayRequest == mc.offline \/ Cardinality(mc.inflight) < MaxInflight

\* the fallback option alone is the offline asteroid
CatalogLoaded ==
    /\ mc.catalogLoading
    /\ \E listed, offline \in BOOLEAN :
          /\ listed \/ offline
          /\ MissionCommit(catalogLoaded(MissionEntry, listed, offline))

\* the select is disabled while the catalog loads and while the inputs are
\* locked; 'Impactor-2025' is listed once
AsteroidChange ==
    /\ ~mc.catalogLoading
    /\ mc.listed
    /\ ~locked
    /\ \E offline \in BOOLEAN :
          /\ ~(mc.offline /\ offline)
          /\ MissionCommit(asteroidChange(MissionEntry, offline))

DefenseClick ==
    /\ active \/ session < MaxSessions
    /\ MayRequest
    /\ MissionCommit(defenseClick(MissionEntry))

SliderInput ==
    \E dv \in SliderDeltaVs : MissionCommit(sliderInput(MissionEntry, dv))

DebounceFired ==
    /\ mc.timer.pending
    /\ MayRequest
    /\ MissionCommit(debounceFired(MissionEntry))

SimulationResponse ==
    \E r \in mc.inflight, c \in Craters :
        MissionCommit(simulationResponse(MissionEntry, r, c))

SimulationFailure ==
    \E r \in mc.inflight, c \in Craters :
        MissionCommit(simulationFailure(MissionEntry, r, c))

CountdownFrame ==
    /\ MayRequest
    /\ \E h \in DOMAIN tweens : MissionCommit(countdownFrame(MissionEntry, h))

MissionNext ==
    \/ CatalogLoaded
    \/ AsteroidChange
    \/ DefenseClick
    \/ SliderInput
    \/ DebounceFired
    \/ SimulationResponse
    \/ SimulationFailure
    \/ CountdownFrame

SpecMission == MissionInit /\ [][MissionNext]_vars

(* ---------- properties of mission control ---------- *)

\* C11: under every interleaving of clicks, slider inputs, timer callbacks
\* and responses or failures, the baseline an armed session holds was
\* recorded from the request that the session's own start() issued (the
\* fixed scenario, deflection_delta_v = 0), never from another request.
C11_BaselineIsOwnStartCrater ==
    (active /\ hasBaseline(World)) =>
        mc.baselineOf = Request("start", World, 0, TRUE)

\* C38: while the selected asteroid is the offline baseline no handler calls
\* evaluateAttempt, and no session ends by a Success resolution.
C38_OfflineNeverEvaluates ==
    mc.offline => (~mc.evaluated /\ "defense-success" \notin msgClasses)

(* ---------- the object heap: aliasing around estimateDeflectionOutcome ---------- *)

\* number of writes a caller makes into the returned scenario
MaxMutations == 1

\* a number, string or boolean held in a field; the model keeps 0 for a value
\* the template or payload came with, 1 for one the estimator computed and
\* 2 for one a caller wrote afterwards
Num(v) == [ref |-> FALSE, v |-> v]

\* a reference to the heap cell id
Ref(id) == [ref |-> TRUE, v |-> id]

\* a plain object with the fields f
Obj(f) == [isArray |-> FALSE, f |-> f, items |-> <<>>]

\* an array with the elements items
Arr(items) == [isArray |-> TRUE, f |-> <<>>, items |-> items]

\* { ...a, ...b } on field maps
Merge(a, b) == [k \in DOMAIN a \cup DOMAIN b |-> IF k \in DOMAIN b THEN b[k] ELSE a[k]]

\* the own fields of the object id, none for null or undefined
FieldsOf(h, id) == IF id = Null THEN <<>> ELSE h[id].f

\* object.key when it is an object or array, else Null
RefOf(h, id, key) ==
    IF id # Null /\ key \in DOMAIN h[id].f /\ h[id].f[key].ref THEN h[id].f[key].v ELSE Null

\* object.key = val
SetField(h, id, key, val) == [h EXCEPT ![id].f = Merge(@, key :> val)]

\* the cells a cell refers to
Refs(cell) ==
    { cell.f[k].v : k \in { k \in DOMAIN cell.f : cell.f[k].ref } } \cup
    { cell.items[i].v : i \in { i \in DOMAIN cell.items : cell.items[i].ref } }

RECURSIVE Closure(_, _)
Closure(h, S) ==
    LET T == S \cup UNION { Refs(h[i]) : i \in S }
    IN  IF T = S THEN S ELSE Closure(h, T)

\* the cells reachable from root
Reach(h, root) == IF root = Null THEN {} ELSE Closure(h, {root})

\* the number of cells of S below r
Rank(S, r) == Cardinality({ q \in S : q < r })

\* { ...object }: a new object with the same field values, references shared
ShallowClone(h, root) ==
    IF root = Null THEN [h |-> h, id |-> Null]
    ELSE [h |-> Append(h, Obj(h[root].f)), id |-> Len(h) + 1]

\* JSON.parse(JSON.stringify(root)): every reachable cell is copied to a new
\* cell and every reference is redirected to the copy
JsonClone(h, root) ==
    IF root = Null THEN [h |-> h, id |-> Null]
    ELSE LET R == Reach(h, root)
             moved(r) == Len(h) + 1 + Rank(R, r)
             copyVal(x) == IF x.ref THEN Ref(moved(x.v)) ELSE x
             copy(r) == [isArray |-> h[r].isArray,
                         f |-> [k \in DOMAIN h[r].f |-> copyVal(h[r].f[k])],
                         items |-> [i \in DOMAIN h[r].items |-> copyVal(h[r].items[i])]]
         IN [h |-> h \o [i \in 1 .. Cardinality(R) |-> copy(CHOOSE r \in R : Rank(R, r) = i - 1)],
             id |-> moved(root)]

\* the { x, y, z } object each map() callback returns
NewPoint == Obj([k \in {"x", "y", "z"} |-> Num(1)])

\* path.map(point => ({ x, y, z })): a new array of new points; a path of
\* Null stands for the literal []
MapPath(h, path) ==
    LET n == IF path = Null THEN 0 ELSE Len(h[path].items)
        h1 == h \o [i \in 1 .. n |-> NewPoint]
    IN [h |-> Append(h1, Arr([i \in 1 .. n |-> Ref(Len(h) + i)])), id |-> Len(h1) + 1]

\* the element of a one-element set; { e(x) : x \in {v} } hands the value of
\* v, computed once, to e
TheOne(S) == CHOOSE x \in S : TRUE

\* a || b on references
OrElse(a, b) == IF a # Null THEN a ELSE b

\* the fields the estimator computes into clone.energy
EnergyFields ==
    [k \in {"mass_kg", "effective_velocity_ms", "energy_joules", "energy_mt"} |-> Num(1)]

\* the fields the estimator computes into clone.impact_effects
EffectFields == [k \in {"crater_diameter_km", "seismic_magnitude"} |-> Num(1)]

\* the orbital_solution part of estimateDeflectionOutcome on the heap
estimateOrbitHeap(h, template, clone) ==
    LET cloneOrbit == RefOf(h, clone, "orbital_solution")
        templateOrbit == RefOf(h, template, "orbital_solution")
        templateBaseline == OrElse(RefOf(h, templateOrbit, "baseline_path"),
                                   RefOf(h, cloneOrbit, "baseline_path"))
        templateDeflected == OrElse(RefOf(h, templateOrbit, "deflected_path"),
                                    OrElse(RefOf(h, cloneOrbit, "deflected_path"),
                                           templateBaseline))
    IN  IF cloneOrbit = Null THEN h
        ELSE TheOne({ TheOne({ [b.h EXCEPT ![cloneOrbit].f =
                                   Merge(@, [k \in {"baseline_path", "deflected_path",
                                                    "baseline_moid_km", "deflected_moid_km",
                                                    "moid_change_km"} |->
                                                CASE k = "baseline_path" -> Ref(b.id)
                                                  [] k = "deflected_path" -> Ref(d.id)
                                                  [] OTHER -> Num(1)])] :
                               b \in {MapPath(d.h, templateBaseline)} }) :
                      d \in {MapPath(h, templateDeflected)} })

\* lines 191-213 on the heap c.h that holds the deep copy c.id: the new
\* inputs, energy and impact_effects objects are appended as cells n + 1,
\* n + 2 and n + 3 and assigned to the copy
estimateBlocks(c, template, payload) ==
    LET n == Len(c.h)
        inputs == Obj(Merge(FieldsOf(c.h, RefOf(c.h, template, "inputs")),
                            FieldsOf(c.h, payload)))
        impact_effects == Obj(Merge(FieldsOf(c.h, RefOf(c.h, template, "impact_effects")),
                                    EffectFields))
    IN [c.h \o <<inputs, Obj(EnergyFields), impact_effects>>
           EXCEPT ![c.id].f = Merge(@, [k \in {"inputs", "energy", "impact_effects"} |->
                                           Ref(CASE k = "inputs" -> n + 1
                                                 [] k = "energy" -> n + 2
                                                 [] OTHER -> n + 3)])]

\* estimateDeflectionOutcome on the heap: which objects it allocates, reads
\* and writes; id is the returned scenario, Null for null
estimateHeap(h, template, payload) ==
    IF template = Null THEN [h |-> h, id |-> Null]
    ELSE TheOne({ TheOne({ [h |-> estimateOrbitHeap(h1, template, c.id), id |-> c.id] :
                           h1 \in {estimateBlocks(c, template, payload)} }) :
                  c \in {JsonClone(h, template)} })

\* a Scenario on the heap, after OFFLINE_BASELINE: cell 1 is the scenario,
\* 2..7 its blocks, 8 and 9 the paths, 10 neo_reference.close_approach,
\* 11..13 the path points, 14 a payload
ScenarioHeap ==
    << Obj([k \in {"inputs", "energy", "impact_effects", "orbital_solution",
                   "environment", "neo_reference"} |->
               Ref(CASE k = "inputs" -> 2 [] k = "energy" -> 3
                     [] k = "impact_effects" -> 4 [] k = "orbital_solution" -> 5
                     [] k = "environment" -> 6 [] OTHER -> 7)]),
       Obj([k \in {"diameter_m", "velocity_kms", "deflection_delta_v"} |-> Num(0)]),
       Obj([k \in {"mass_kg", "energy_mt"} |-> Num(0)]),
       Obj([k \in {"crater_diameter_km", "seismic_magnitude"} |-> Num(0)]),
       Obj([k \in {"baseline_path", "deflected_path", "baseline_moid_km"} |->
               CASE k = "baseline_path" -> Ref(8) [] k = "deflected_path" -> Ref(9)
                 [] OTHER -> Num(0)]),
       Obj([k \in {"elevation_m", "tsunami_risk"} |-> Num(0)]),
       Obj([k \in {"name", "close_approach"} |->
               IF k = "close_approach" THEN Ref(10) ELSE Num(0)]),
       Arr(<<Ref(11)>>),
       Arr(<<Ref(12), Ref(13)>>),
       Obj([k \in {"miss_distance_km"} |-> Num(0)]),
       NewPoint, NewPoint, NewPoint,
       Obj([k \in {"diameter_m", "deflection_delta_v"} |-> Num(0)]) >>

\* the cell of the template scenario and of the payload in ScenarioHeap
TemplateCell == 1

PayloadCell == 14

\* delete object.key
DeleteField(h, id, key) ==
    [h EXCEPT ![id].f = [k \in DOMAIN @ \ {key} |-> @[k]]]

RECURSIVE WithoutAll(_, _)
\* delete the fields named by the set of <<cell, key>> pairs
WithoutAll(h, pairs) ==
    IF pairs = {} THEN h
    ELSE LET p == CHOOSE p \in pairs : TRUE
         IN WithoutAll(DeleteField(h, p[1], p[2]), pairs \ {p})

\* the blocks and paths a template may lack
Droppable ==
    { <<1, "inputs">>, <<1, "impact_effects">>, <<1, "orbital_solution">>,
      <<1, "neo_reference">>, <<5, "baseline_path">>, <<5, "deflected_path">> }

HeapInit ==
    /\ DmInit
    /\ viz = Unused
    /\ est = Unused
    /\ mc = Unused
    /\ sim = Unused
    /\ pg = Unused
    /\ \E dropped \in SUBSET Droppable, template \in {TemplateCell, Null},
          payload \in {PayloadCell, Null} :
          LET h == WithoutAll(ScenarioHeap, dropped)
          IN hp = [heap |-> h, before |-> h, template |-> template, payload |-> payload,
                   result |-> Null, called |-> FALSE, mutations |-> 0]

\* result = estimateDeflectionOutcome(template, payload)
EstimateOnHeap ==
    /\ ~hp.called
    /\ LET r == estimateHeap(hp.heap, hp.template, hp.payload)
       IN hp' = [hp EXCEPT !.heap = r.h, !.result = r.id, !.called = TRUE]
    /\ UNCHANGED <<dmVars, viz, est, mc, sim, pg>>

\* the caller writes a field of an object it reaches from the result
MutateResultField ==
    /\ hp.called
    /\ hp.mutations < MaxMutations
    /\ \E id \in Reach(hp.heap, hp.result) :
         \E key \in DOMAIN hp.heap[id].f \cup {"note"} :
            hp' = [hp EXCEPT !.heap = SetField(@, id, key, Num(2)),
                             !.mutations = @ + 1]
    /\ UNCHANGED <<dmVars, viz, est, mc, sim, pg>>

\* the caller overwrites an element of an array it reaches from the result
MutateResultItem ==
    /\ hp.called
    /\ hp.mutations < MaxMutations
    /\ \E id \in Reach(hp.heap, hp.result) :
         \E i \in DOMAIN hp.heap[id].items :
            hp' = [hp EXCEPT !.heap[id].items[i] = Num(2), !.mutations = @ + 1]
    /\ UNCHANGED <<dmVars, viz, est, mc, sim, pg>>

HeapNext ==
    \/ EstimateOnHeap
    \/ MutateResultField
    \/ MutateResultItem

SpecHeap == HeapInit /\ [][HeapNext]_vars

\* C21: the call leaves every object that existed before it (the template,
\* the payload and all they reach) as it was, the returned scenario reaches
\* none of the objects the template or the payload reach, and so no write
\* into the result changes the template or the payload.
C21_ResultSharesNothing ==
    hp.called =>
        /\ \A id \in 1 .. Len(hp.before) : hp.heap[id] = hp.before[id]
        /\ Reach(hp.heap, hp.result) \cap
               (Reach(hp.heap, hp.template) \cup Reach(hp.heap, hp.payload)) = {}

\* C21 witness: a scenario was returned for a template with paths and a
\* neo_reference, and the caller has written into one of its blocks
C21_Witness ==
    /\ hp.called
    /\ hp.result # Null
    /\ hp.mutations = MaxMutations
    /\ RefOf(hp.before, RefOf(hp.before, hp.template, "orbital_solution"), "deflected_path") # Null
    /\ RefOf(hp.before, hp.template, "neo_reference") # Null
    /\ \E id \in Reach(hp.heap, hp.result) \ {hp.result} :
          \E key \in DOMAIN hp.heap[id].f : hp.heap[id].f[key] = Num(2)

(* ---------- main.js: the scenarios of successive simulation cycles ---------- *)
(* runSimulation on the object heap: which Scenario object each cycle hands
   to renderSimulation and stores in lastSimulationData, and which objects
   it writes.  Whether the page is in defense mode, which asteroid is
   selected and how the request ends are inputs of a cycle. *)

\* runSimulation calls one behaviour may make
MaxCycles == 3

\* asteroid ids: 'Impactor-2025' and one asteroid of the catalog; Null is
\* undefined (nothing selected)
Impactor2025 == 0

CatalogAsteroid == 7

\* the shared constant OFFLINE_BASELINE is cell 1 of ScenarioHeap
OFFLINE_BASELINE == TemplateCell

\* the value of object.key when it is no object, Null when there is none
ValueOf(h, id, key) ==
    IF id # Null /\ key \in DOMAIN h[id].f /\ ~h[id].f[key].ref THEN h[id].f[key].v ELSE Null

\* collectPayload(overrides): a new object
collectPayload(h, asteroid_id) ==
    Append(h, Obj([k \in {"diameter_m", "velocity_kms", "deflection_delta_v",
                          "impact_lat", "impact_lon", "asteroid_id"} |->
                      IF k = "asteroid_id" THEN Num(asteroid_id) ELSE Num(0)]))

\* enrichNeoReferenceFromOption(neo, option): neo itself without an option,
\* else a new object with a new diameter_range_m and a new close_approach
enrichNeoReferenceFromOption(h, neo, option) ==
    IF ~option THEN [h |-> h, id |-> neo]
    ELSE LET n == Len(h)
             derivedRange == Obj([k \in {"min_m", "max_m"} |-> Num(1)])
             closeApproach == Obj(Merge(FieldsOf(h, RefOf(h, neo, "close_approach")),
                                        [k \in {"miss_distance_km"} |-> Num(1)]))
             clone == Obj(Merge(FieldsOf(h, neo),
                                [k \in {"name", "designation", "velocity_kms", "diameter_m",
                                        "friendly_id", "diameter_range_m", "close_approach"} |->
                                    CASE k = "diameter_range_m" -> Ref(n + 2)
                                      [] k = "close_approach" -> Ref(n + 3)
                                      [] OTHER -> Num(1)]))
         IN [h |-> h \o <<clone, derivedRange, closeApproach>>, id |-> n + 1]

\* the objects a cycle must leave alone: all that the scenarios rendered so
\* far, lastSimulationData and OFFLINE_BASELINE reach
Protected(s) ==
    UNION { Reach(s.heap, r) : r \in s.rendered \cup {s.last, OFFLINE_BASELINE} }

\* renderSimulation(data) and lastSimulationData = data, at the end of a
\* cycle that began in s and left the heap h; estimated is the template of
\* the estimator call that returned data, Null when no such call did
renderAndStore(s, h, data, kind, estimated) ==
    [heap |-> h, last |-> data, rendered |-> s.rendered \cup {data},
     cycles |-> s.cycles + 1, kind |-> kind,
     fresh |-> data > Len(s.heap),
     inPlace |-> \E id \in Protected(s) : h[id] # s.heap[id],
     estimated |-> estimated, good |-> s.last]

\* runSimulation, the branch of the offline asteroid
\* offlineData.inputs = offlineInputs, a new object
withOfflineInputs(c) ==
    SetField(Append(c.h, Obj(FieldsOf(c.h, RefOf(c.h, OFFLINE_BASELINE, "inputs")))),
             c.id, "inputs", Ref(Len(c.h) + 1))

runOffline(s, option) ==
    TheOne({ TheOne({ TheOne({ renderAndStore(s, SetField(e.h, c.id, "neo_reference", Ref(e.id)),
                                              c.id, "offline", Null) :
                               e \in {enrichNeoReferenceFromOption(
                                          h1, RefOf(h1, c.id, "neo_reference"), option)} }) :
                      h1 \in {withOfflineInputs(c)} }) :
             c \in {JsonClone(collectPayload(s.heap, Impactor2025), OFFLINE_BASELINE)} })

\* runSimulation, the request answered: response.json() is a new Scenario;
\* its shape is that of OFFLINE_BASELINE and its inputs name the asteroid
runSuccess(s, asteroid_id) ==
    TheOne({ renderAndStore(s, SetField(data.h, RefOf(data.h, data.id, "inputs"),
                                        "asteroid_id", Num(asteroid_id)),
                            data.id, "success", Null) :
             data \in {JsonClone(collectPayload(s.heap, asteroid_id), OFFLINE_BASELINE)} })

\* runSimulation, the catch branch
\* approximated.neo_reference = enrichNeoReferenceFromOption(
\*     { ...(approximated.neo_reference || {}) }, selectedOption)
withEnrichedNeo(a, option) ==
    TheOne({ SetField(e.h, a.id, "neo_reference", Ref(e.id)) :
             e \in {enrichNeoReferenceFromOption(
                        Append(a.h, Obj(FieldsOf(a.h, RefOf(a.h, a.id, "neo_reference")))),
                        Len(a.h) + 1, option)} })

runFailure(s, asteroid_id, applyNeoDefaults, isDefenseActive, option) ==
    LET payload == Len(s.heap) + 1
        replace == /\ applyNeoDefaults
                   /\ asteroid_id # Null
                   /\ ValueOf(s.heap, RefOf(s.heap, s.last, "inputs"), "asteroid_id")
                          # asteroid_id
    IN TheOne({ TheOne({ TheOne({ renderAndStore(
                                      s, h1, a.id, "failure",
                                      IF isDefenseActive THEN f.id
                                      ELSE IF replace THEN OFFLINE_BASELINE ELSE Null) :
                                  h1 \in {IF applyNeoDefaults THEN withEnrichedNeo(a, option)
                                          ELSE a.h} }) :
                         a \in {IF isDefenseActive THEN estimateHeap(f.h, f.id, payload)
                                ELSE f} }) :
                f \in { TheOne({ IF replace THEN estimateHeap(h0, OFFLINE_BASELINE, payload)
                                 ELSE [h |-> h0, id |-> s.last] :
                                 h0 \in {collectPayload(s.heap, asteroid_id)} }) } })

\* the page after initMissionControl: lastSimulationData = OFFLINE_BASELINE,
\* rendered once
CycleInit ==
    /\ DmInit
    /\ viz = Unused
    /\ est = Unused
    /\ mc = Unused
    /\ hp = Unused
    /\ pg = Unused
    /\ sim = [heap |-> ScenarioHeap, last |-> OFFLINE_BASELINE,
              rendered |-> {OFFLINE_BASELINE}, cycles |-> 0, kind |-> "init",
              fresh |-> FALSE, inPlace |-> FALSE, estimated |-> Null, good |-> Null]

CycleCommit(s) ==
    /\ sim.cycles < MaxCycles
    /\ sim' = s
    /\ UNCHANGED <<dmVars, viz, est, mc, hp, pg>>

OfflineCycle ==
    \E option \in BOOLEAN : CycleCommit(runOffline(sim, option))

SuccessCycle ==
    \E asteroid_id \in {Null, CatalogAsteroid} : CycleCommit(runSuccess(sim, asteroid_id))

FailureCycle ==
    \E asteroid_id \in {Null, CatalogAsteroid}, applyNeoDefaults \in BOOLEAN,
       isDefenseActive \in BOOLEAN, option \in BOOLEAN :
        CycleCommit(runFailure(sim, asteroid_id, applyNeoDefaults, isDefenseActive, option))

CycleNext ==
    \/ OfflineCycle
    \/ SuccessCycle
    \/ FailureCycle

SpecCycle == CycleInit /\ [][CycleNext]_vars

\* C23: every cycle hands the renderer a Scenario object constructed in that
\* cycle, and writes into no object that a scenario rendered before, the
\* stored last result or OFFLINE_BASELINE reaches.
C23_EveryCycleRendersNewScenario ==
    sim.cycles > 0 => (sim.fresh /\ ~sim.inPlace)

\* C24: after a failed request the scenario rendered is the one the
\* estimator returned for the last-known-good scenario as template, armed
\* or not.
C24_FailureRendersEstimateOfLast ==
    sim.kind = "failure" => sim.estimated = sim.good

(* ---------- main.js: the debounce timer and the requests in flight ---------- *)
(* A page without a defense controller (defenseMode is null when the defense
   button, the countdown or the message element is missing) and with a catalog
   asteroid selected, so that every runSimulation goes to the server.  The
   browser's timer table and the requests awaiting a response are kept beside
   the page's own variables; a request is known by its issue number. *)

\* scheduleSimulation calls one behaviour may make
MaxSchedules == 3

\* /api/simulate requests one behaviour may issue
MaxRequests == 3

\* the delay of the debounce timer, in ms
DEBOUNCE_MS == 220

\* the arguments of a scheduleSimulation or runSimulation call: what the
\* overrides hold and the skipDefenseCheck option; the slider's call and the
\* call made once the catalog is loaded
CallArgs == { [deltaV |-> 1, skipDefenseCheck |-> FALSE],
              [deltaV |-> 0, skipDefenseCheck |-> TRUE] }

NoArgs == [deltaV |-> 0, skipDefenseCheck |-> FALSE]

\* window.setTimeout(callback, delay): a new entry of the timer table; the
\* callback is known by the copies of overrides and options it closes over
setTimeout(p, args, delay) ==
    [p EXCEPT !.timers = @ \cup {[id |-> p.timerIds + 1, args |-> args, delay |-> delay]},
              !.timerIds = @ + 1]

\* clearTimeout(handle)
clearTimeout(p, handle) ==
    [p EXCEPT !.timers = {t \in @ : t.id # handle}]

scheduleSimulationNoClear(p, overrides) ==
    LET p1 == setTimeout(p, overrides, DEBOUNCE_MS)
    IN  [p1 EXCEPT !.pendingSimulationHandle = p1.timerIds,
                   !.scheduled = overrides,
                   !.event = "schedule"]

\* scheduled, event: the arguments of this call, for the record
scheduleSimulationPage(p, overrides) ==
    LET p0 == IF p.pendingSimulationHandle # Null
              THEN clearTimeout(p, p.pendingSimulationHandle)
              ELSE p
        p1 == setTimeout(p0, overrides, DEBOUNCE_MS)
    IN  [p1 EXCEPT !.pendingSimulationHandle = p1.timerIds,
                   !.scheduled = overrides,
                   !.event = "schedule"]

\* runSimulation up to `await fetch`: the pending timer is cleared and the
\* request is issued; during: the requests in flight when it was issued
runSimulationFetch(p, args) ==
    LET p0 == IF p.pendingSimulationHandle # Null
              THEN [clearTimeout(p, p.pendingSimulationHandle)
                       EXCEPT !.pendingSimulationHandle = Null]
              ELSE p
        id == Len(p.requests) + 1
    IN  [p0 EXCEPT !.requests = Append(@, [status |-> "in flight", during |-> p.inflight]),
                   !.inflight = @ \cup {id},
                   !.ran = args]

\* the callback of timer t: pendingSimulationHandle = null, then runSimulation
\* with the copies
timerCallback(p, t) ==
    LET p0 == [p EXCEPT !.timers = @ \ {t}, !.pendingSimulationHandle = Null]
    IN  [runSimulationFetch(p0, t.args) EXCEPT !.event = "timer", !.firedTimer = t]

\* a caller's own runSimulation(overrides, options)
directRun(p, args) ==
    [runSimulationFetch(p, args) EXCEPT !.event = "run"]

\* runSimulation after `await fetch`, the response being ok: the data of
\* request id is rendered and stored
fetchResolved(p, id) ==
    [p EXCEPT !.inflight = @ \ {id},
              !.requests[id].status = "ok",
              !.rendered = id,
              !.lastSimulationData = id,
              !.event = "response"]

\* runSimulation's catch branch with no defense session and no
\* applyNeoDefaults: the fallback, lastSimulationData or OFFLINE_BASELINE, is
\* rendered and stored again
fetchRejected(p, id) ==
    [p EXCEPT !.inflight = @ \ {id},
              !.requests[id].status = "failed",
              !.rendered = p.lastSimulationData,
              !.event = "failure"]

\* the data of no request: OFFLINE_BASELINE, rendered by initMissionControl
BaselineData == 0

\* the page after initMissionControl, the catalog loaded
NewPage ==
    [timers |-> {}, timerIds |-> 0, pendingSimulationHandle |-> Null,
     requests |-> <<>>, inflight |-> {},
     rendered |-> BaselineData, lastSimulationData |-> BaselineData,
     scheduled |-> NoArgs, ran |-> NoArgs, event |-> "init",
     firedTimer |-> [id |-> 0, args |-> NoArgs, delay |-> 0]]

PageInit ==
    /\ DmInit
    /\ viz = Unused
    /\ est = Unused
    /\ mc = Unused
    /\ hp = Unused
    /\ sim = Unused
    /\ pg = NewPage

PageCommit(p) ==
    /\ pg' = p
    /\ UNCHANGED <<dmVars, viz, est, mc, hp, sim>>

ScheduleSimulation ==
    \E args \in CallArgs :
        /\ pg.timerIds < MaxSchedules
        /\ PageCommit(scheduleSimulationPage(pg, args))

TimerFired ==
    \E t \in pg.timers :
        /\ Len(pg.requests) < MaxRequests
        /\ PageCommit(timerCallback(pg, t))

RunSimulation ==
    \E args \in CallArgs :
        /\ Len(pg.requests) < MaxRequests
        /\ PageCommit(directRun(pg, args))

FetchResolved ==
    \E id \in pg.inflight : PageCommit(fetchResolved(pg, id))

FetchRejected ==
    \E id \in pg.inflight : PageCommit(fetchRejected(pg, id))

PageNext ==
    \/ ScheduleSimulation
    \/ TimerFired
    \/ RunSimulation
    \/ FetchResolved
    \/ FetchRejected

SpecPage == PageInit /\ [][PageNext]_vars

(* ---------- properties of the timer and the requests ---------- *)

\* C36: at most one debounce timer is pending, the one pendingSimulationHandle
\* names; the timer that fires is the one set by the most recent
\* scheduleSimulation call, with a delay of 220 ms, it runs runSimulation
\* with that call's arguments, and leaves no timer behind, so a burst of
\* calls fires once; a direct runSimulation call leaves no timer pending.
C36_OneDebouncedRun ==
    /\ Cardinality(pg.timers) <= 1
    /\ pg.timers = {t \in pg.timers : t.id = pg.pendingSimulationHandle}
    /\ pg.pendingSimulationHandle # Null => \E t \in pg.timers : t.id = pg.pendingSimulationHandle
    /\ pg.event = "timer" =>
          /\ pg.firedTimer.id = pg.timerIds
          /\ pg.firedTimer.delay = DEBOUNCE_MS
          /\ pg.ran = pg.scheduled
          /\ pg.timers = {}
    /\ pg.event = "run" =>
          /\ pg.timers = {}
          /\ pg.pendingSimulationHandle = Null

\* C36 witness: the timer of the third call of a burst has fired with the
\* third call's arguments
C36_Witness ==
    /\ pg.event = "timer"
    /\ pg.timerIds = 3
    /\ Len(pg.requests) = 1
    /\ pg.ran = [deltaV |-> 0, skipDefenseCheck |-> TRUE]

\* C37: of two requests that were in flight at the same time and both
\* succeeded, the data rendered and stored once both responses are processed
\* is that of the one issued later, whatever order the responses came in.
C37_LaterRequestWins ==
    \A a, b \in DOMAIN pg.requests :
        (/\ a < b
         /\ a \in pg.requests[b].during
         /\ pg.requests[a].status = "ok"
         /\ pg.requests[b].status = "ok"
         /\ pg.lastSimulationData \in {a, b}) =>
            /\ pg.lastSimulationData = b
            /\ pg.rendered = b

(* ---------- the failure fallback, run after run ---------- *)
(* The orbital lab's fetchSimulation with the backend unreachable: every run
   estimates from lastResult and stores the estimate as lastResult.  main.js
   does the same with lastSimulationData while a defense session is active. *)

\* fallback runs in a row
MaxRuns == 2

\* a returned scenario read as a template: a path the estimator wrote is an
\* array
AsTemplate(result) ==
    [present |-> TRUE, mass_kg |-> result.mass_kg,
     velocity_kms |-> result.inputs.velocity_kms,
     diameter_m |-> result.inputs.diameter_m,
     deflection_delta_v |-> result.inputs.deflection_delta_v,
     orbital_solution |->
        IF ~result.orbital_solution.present THEN NoOrbitalSolution
        ELSE [present |-> TRUE,
              baseline_path |-> [present |-> TRUE,
                                 points |-> result.orbital_solution.baseline_path],
              deflected_path |-> [present |-> TRUE,
                                  points |-> result.orbital_solution.deflected_path],
              baseline_moid_km |-> result.orbital_solution.baseline_moid_km]]

\* fetchSimulation's catch branch: estimate = estimateDeflectionOutcome(
\* lastResult, payload); lastResult = estimate; first keeps the estimate of
\* the first run
fallbackRun(e) ==
    LET estimate == estimateDeflectionOutcome(e.lastResult, e.payload)
    IN  [e EXCEPT !.runs = @ + 1,
                  !.result = estimate,
                  !.first = IF e.runs = 0 THEN estimate ELSE @,
                  !.lastResult = AsTemplate(estimate)]

FallbackInit ==
    /\ DmInit
    /\ viz = Unused
    /\ est \in [lastResult : Templates, payload : Payloads, runs : {0},
                result : {NoResult}, first : {NoResult}]
    /\ mc = Unused
    /\ hp = Unused
    /\ sim = Unused
    /\ pg = Unused

FallbackRun ==
    /\ est.runs < MaxRuns
    /\ est' = fallbackRun(est)
    /\ UNCHANGED <<dmVars, viz, mc, hp, sim, pg>>

FallbackNext == FallbackRun

SpecFallback == FallbackInit /\ [][FallbackNext]_vars

\* C39: the same payload with a non-zero delta-v run twice through the
\* fallback gives the same deflected_path and the same deflected_moid_km both
\* times.
C39_FallbackIsIdempotent ==
    (/\ est.runs = 2
     /\ Coalesce(est.payload.deflection_delta_v, 0) # 0) =>
        /\ est.result.orbital_solution.deflected_path
              = est.first.orbital_solution.deflected_path
        /\ est.result.orbital_solution.deflected_moid_km
              = est.first.orbital_solution.deflected_moid_km

====
